---- MODULE Spec2Model ----
(***************************************************************************)
(* Model of the Elasticsearch -> PostgreSQL pipeline of elastic-tools:     *)
(* the scroll iterator fetchLogs (services/elasticsearch.ts), the          *)
(* projector extractPayloadFields (processing/logProcessor.ts), the batch  *)
(* loaders batchInsertUserRecords / batchInsertBukopinRecords              *)
(* (services/database.ts) and the driver run (index.ts).                   *)
(***************************************************************************)
EXTENDS Integers, Sequences, FiniteSets, TLC

(***************************************************************************)
(* Bounds of the model.                                                    *)
(***************************************************************************)
\* run's batchSize (1000 in index.ts), scaled down so that a batch fills up
batchSize == 2
\* the size of the search request (6000 in fetchLogs), scaled down: the most
\* hits the backend returns in one page
pageSize == 2

\* the number of rows of a CSV file, at most
MaxRows == 5
\* largest number of documents the backend returns in one run, over all the
\* pages of the run
MaxDocs == 4
\* most characters cut off the end of a serialized payload
MaxCut == 2
\* longest payload string made of arbitrary characters
MaxGarbageLen == 3

(***************************************************************************)
(* JavaScript values.  A value is a record tagged by its typeof/kind.      *)
(* A string is a sequence of characters; a character is a one-character    *)
(* string, or an atom: a longer string such as "profile" that stands for   *)
(* that run of letters (no operation of the program splits a run of        *)
(* letters).  Property names are strings, hence sequences as well.         *)
(***************************************************************************)
Undef == [t |-> "undefined"]
NullV == [t |-> "null"]
Str(s) == [t |-> "string", s |-> s]
Num(n) == [t |-> "number", n |-> n]
Obj(f) == [t |-> "object", f |-> f]
Arr(a) == [t |-> "array", a |-> a]
Bool(b) == [t |-> "boolean", b |-> b]

\* the empty property map
NoProps == [k \in {} |-> Undef]

\* ToBoolean(v)
Truthy(v) ==
    CASE v.t = "undefined" -> FALSE
      [] v.t = "null" -> FALSE
      [] v.t = "string" -> v.s # <<>>
      [] v.t = "number" -> v.n # 0
      [] v.t = "boolean" -> v.b
      [] OTHER -> TRUE

\* typeof v === 'object' && v !== null
IsObjectLike(v) == v.t \in {"object", "array"}

\* v.k for a v that is neither null nor undefined
Get(v, k) == IF v.t = "object" /\ <<k>> \in DOMAIN v.f THEN v.f[<<k>>] ELSE Undef

\* an object literal with the one property k: v
Prop(k, v) == <<k>> :> v

(***************************************************************************)
(* JSON.parse on the characters { } [ ] " \ : , / the digits, the literals  *)
(* null, true and false, and atoms.  The result is [ok, v]; ok = FALSE is  *)
(* the SyntaxError JSON.parse throws.                                      *)
(***************************************************************************)
Digits == {"0", "1", "2", "3", "4", "5", "6", "7", "8", "9"}

DigitVal(c) ==
    CASE c = "0" -> 0 [] c = "1" -> 1 [] c = "2" -> 2 [] c = "3" -> 3
      [] c = "4" -> 4 [] c = "5" -> 5 [] c = "6" -> 6 [] c = "7" -> 7
      [] c = "8" -> 8 [] c = "9" -> 9

\* the character at position i, "" past the end
At(s, i) == IF i >= 1 /\ i <= Len(s) THEN s[i] ELSE ""

ParseFail == [ok |-> FALSE, v |-> Undef, pos |-> 0]

ParseOk(v, pos) == [ok |-> TRUE, v |-> v, pos |-> pos]

\* a character of a string paired with whether it is to be dropped
Kept(p) == ~p[2]

\* the characters of the pairs of t that are not to be dropped, in order
Undropped(t) == [k \in 1..Len(SelectSeq(t, Kept)) |-> SelectSeq(t, Kept)[k][1]]

\* the number of consecutive backslashes that end right before position i,
\* in the string literal whose characters start at position j
BackslashRun(s, j, i) ==
    CHOOSE r \in 0..(i - j) :
        /\ r = i - j \/ s[i - 1 - r] # "\\"
        /\ \A q \in 0..(r - 1) : s[i - 1 - q] = "\\"

\* position i holds a quote that no backslash escapes, in the string literal
\* whose characters start at position j
ClosesString(s, j, i) == s[i] = "\"" /\ BackslashRun(s, j, i) % 2 = 0

\* position k holds a backslash that is not itself escaped
Introduces(s, j, k) == s[k] = "\\" /\ BackslashRun(s, j, k) % 2 = 0

\* the least element of a set of positions
Least(S) == CHOOSE x \in S : \A y \in S : x <= y

\* the string literal whose characters run from position j to the closing
\* quote at position close: a backslash introduces \", \\ or \/
StringUpTo(s, j, close) ==
    IF \E k \in j..(close - 1) :
           Introduces(s, j, k) /\ s[k + 1] \notin {"\"", "\\", "/"}
    THEN ParseFail
    ELSE ParseOk(Str(Undropped([k \in 1..(close - j) |->
                                   <<s[j + k - 1], Introduces(s, j, j + k - 1)>>])),
                 close + 1)

\* the string literal that the first of the quotes at the positions closing
\* ends
StringClosedBy(s, j, closing) ==
    IF closing = {} THEN ParseFail ELSE StringUpTo(s, j, Least(closing))

\* the rest of a string literal whose opening quote is before position j
ScanString(s, j) ==
    StringClosedBy(s, j, {i \in j..Len(s) : ClosesString(s, j, i)})

RECURSIVE ScanDigits(_, _, _)
ScanDigits(s, j, n) ==
    IF At(s, j) \in Digits
    THEN ScanDigits(s, j + 1, 10 * n + DigitVal(s[j]))
    ELSE ParseOk(Num(n), j)

RECURSIVE ParseValue(_, _)
RECURSIVE ParseMembers(_, _, _)
RECURSIVE ParseElements(_, _, _)

\* the value that starts with the character c at position i
ValueAt(s, i, c) ==
    CASE c = "{" -> IF At(s, i + 1) = "}" THEN ParseOk(Obj(NoProps), i + 2)
                    ELSE ParseMembers(s, i + 1, NoProps)
      [] c = "[" -> IF At(s, i + 1) = "]" THEN ParseOk(Arr(<<>>), i + 2)
                    ELSE ParseElements(s, i + 1, <<>>)
      [] c = "\"" -> ScanString(s, i + 1)
      [] c = "0" -> ParseOk(Num(0), i + 1)
      [] c \in Digits \ {"0"} -> ScanDigits(s, i, 0)
      [] c = "null" -> ParseOk(NullV, i + 1)
      [] c = "true" -> ParseOk(Bool(TRUE), i + 1)
      [] c = "false" -> ParseOk(Bool(FALSE), i + 1)
      [] OTHER -> ParseFail

ParseValue(s, i) == ValueAt(s, i, At(s, i))

\* the members of an object after the members acc, from the separator at
\* position pos
MembersFrom(s, pos, acc) ==
    CASE At(s, pos) = "," -> ParseMembers(s, pos + 1, acc)
      [] At(s, pos) = "}" -> ParseOk(Obj(acc), pos + 1)
      [] OTHER -> ParseFail

\* the member whose name was scanned as k and whose value was parsed as v
MemberOf(s, acc, k, v) ==
    IF ~v.ok THEN ParseFail ELSE MembersFrom(s, v.pos, (k.v.s :> v.v) @@ acc)

\* the member whose name was scanned as k
MemberNamed(s, acc, k) ==
    IF ~k.ok \/ At(s, k.pos) # ":" THEN ParseFail
    ELSE MemberOf(s, acc, k, ParseValue(s, k.pos + 1))

ParseMembers(s, i, acc) ==
    IF At(s, i) # "\"" THEN ParseFail ELSE MemberNamed(s, acc, ScanString(s, i + 1))

\* the elements of an array after the elements acc and the element parsed as v
ElementsFrom(s, acc, v) ==
    IF ~v.ok THEN ParseFail
    ELSE CASE At(s, v.pos) = "," -> ParseElements(s, v.pos + 1, Append(acc, v.v))
           [] At(s, v.pos) = "]" -> ParseOk(Arr(Append(acc, v.v)), v.pos + 1)
           [] OTHER -> ParseFail

ParseElements(s, i, acc) == ElementsFrom(s, acc, ParseValue(s, i))

\* the value r parsed from s, when it is all of s
WholeInput(s, r) ==
    IF r.ok /\ r.pos = Len(s) + 1 THEN [ok |-> TRUE, v |-> r.v]
    ELSE [ok |-> FALSE, v |-> Undef]

JSONParse(s) == WholeInput(s, ParseValue(s, 1))

\* s.replace(/\\"/g, '"'): every backslash that a quote follows is dropped
ReplaceEscapedQuotes(s) ==
    Undropped([i \in 1..Len(s) |-> <<s[i], s[i] = "\\" /\ At(s, i + 1) = "\"">>])

(***************************************************************************)
(* processing/logProcessor.ts                                              *)
(***************************************************************************)
\* a call that returned v
Returned(v) == [threw |-> FALSE, v |-> v]

\* a call that raised
Threw == [threw |-> TRUE, v |-> Undef]

\* the second attempt: JSON.parse of correctedString, without its first and
\* last character when both are quotes
ParseCorrected(correctedString) ==
    JSONParse(IF /\ At(correctedString, 1) = "\""
                 /\ At(correctedString, Len(correctedString)) = "\""
              THEN SubSeq(correctedString, 2, Len(correctedString) - 1)
              ELSE correctedString)

\* the result first of the first attempt, or the second attempt when the
\* first threw
FirstOrCorrected(s, first) ==
    IF first.ok THEN first ELSE ParseCorrected(ReplaceEscapedQuotes(s))

\* DecodePayload with the recovery pass applied before the first parse
DecodePayloadRecoveryFirst(payload) ==
    IF payload.t = "string" THEN ParseCorrected(ReplaceEscapedQuotes(payload.s))
    ELSE [ok |-> TRUE, v |-> payload]

\* the parsing of the payload: the parsed payload, or ok = FALSE where the
\* function returns null from one of its catch blocks
DecodePayload(payload) ==
    IF payload.t = "string" THEN FirstOrCorrected(payload.s, JSONParse(payload.s))
    ELSE [ok |-> TRUE, v |-> payload]

\* if (typeof parsedPayload !== 'object' || parsedPayload === null) return null
ObjectOrNull(parsed) ==
    IF parsed.ok /\ IsObjectLike(parsed.v) THEN parsed
    ELSE [ok |-> FALSE, v |-> Undef]

\* DecodeStep without the test that the parsed payload is an object
DecodeStepAcceptsAnyValue(payload) == DecodePayload(payload)

\* the decode step, lines 18 to 53: parsedPayload, or ok = FALSE where the
\* function returns null
DecodeStep(payload) == ObjectOrNull(DecodePayload(payload))

\* processed.profile, when parsedPayload.profile is truthy
ProfilePart(parsedPayload) ==
    LET profile == Get(parsedPayload, "profile") IN
    IF Truthy(profile)
    THEN Prop("profile", Obj(Prop("email", Get(profile, "email"))
                             @@ Prop("mobile", Get(profile, "mobile"))
                             @@ Prop("name", Get(profile, "name"))
                             @@ Prop("idType", Get(profile, "idType"))
                             @@ Prop("idNo", Get(profile, "idNo"))))
    ELSE NoProps

\* parsedPayload.employment is a non-empty array
HasEmployment(parsedPayload) ==
    LET employment == Get(parsedPayload, "employment") IN
    employment.t = "array" /\ Len(employment.a) > 0

\* EmploymentPart taking the last employment entry
EmploymentPartOfLast(parsedPayload) ==
    IF HasEmployment(parsedPayload)
    THEN LET employment == Get(parsedPayload, "employment").a
             lastEmployment == employment[Len(employment)]
             salaryDetails == Get(lastEmployment, "salaryDetails")
         IN Prop("employment",
                 Obj(Prop("id", Get(lastEmployment, "id"))
                     @@ Prop("eid", Get(lastEmployment, "eid"))
                     @@ Prop("salaryDetails",
                             IF Truthy(salaryDetails)
                             THEN Obj(Prop("salary", Get(salaryDetails, "salary")))
                             ELSE Undef)))
    ELSE NoProps

\* processed.employment, from the first employment entry
EmploymentPart(parsedPayload) ==
    IF HasEmployment(parsedPayload)
    THEN LET firstEmployment == Get(parsedPayload, "employment").a[1]
             salaryDetails == Get(firstEmployment, "salaryDetails")
         IN Prop("employment",
                 Obj(Prop("id", Get(firstEmployment, "id"))
                     @@ Prop("eid", Get(firstEmployment, "eid"))
                     @@ Prop("salaryDetails",
                             IF Truthy(salaryDetails)
                             THEN Obj(Prop("salary", Get(salaryDetails, "salary")))
                             ELSE Undef)))
    ELSE NoProps

\* firstEmployment.id is read from null or undefined: a TypeError
EmploymentThrows(parsedPayload) ==
    /\ HasEmployment(parsedPayload)
    /\ Get(parsedPayload, "employment").a[1].t \in {"null", "undefined"}

\* lines 80 to 90: null when processed has no property, else the record
RecordOf(source, processed) ==
    IF DOMAIN processed = {} THEN Returned(NullV)
    ELSE Returned(Obj(Prop("@timestamp", Get(source, "@timestamp"))
                      @@ Prop("uid", Get(source, "uid"))
                      @@ Prop("payload", Obj(processed))))

\* lines 45 to 90, for the outcome decoded of the decode step
ExtractFields(source, decoded) ==
    IF ~decoded.ok THEN Returned(NullV)
    ELSE IF EmploymentThrows(decoded.v) THEN Threw
    ELSE RecordOf(source, ProfilePart(decoded.v) @@ EmploymentPart(decoded.v))

extractPayloadFields(source, queryType) ==
    IF ~Truthy(source) \/ ~Truthy(Get(source, "payload")) THEN Returned(NullV)
    ELSE IF queryType = "bukopin"
    THEN Returned(Obj(Prop("@timestamp", Get(source, "@timestamp"))
                      @@ Prop("uid", IF Truthy(Get(source, "uid"))
                                     THEN Get(source, "uid") ELSE Str(<<>>))
                      @@ Prop("payload", Obj(Prop("raw", Get(source, "payload"))))))
    ELSE ExtractFields(source, DecodeStep(Get(source, "payload")))

(***************************************************************************)
(* The payloads extractPayloadFields is given: "a stringified JSON,        *)
(* potentially double-encoded", or an object.  JSONStringify is the        *)
(* producer's JSON.stringify; a payload is described by its origin: how    *)
(* the producer built it (kind) and from which value (v).                  *)
(***************************************************************************)
\* the property names, in the order the producer writes them
KeyOrder ==
    <<"profile", "employment", "other", "email", "mobile", "name", "idType",
      "idNo", "id", "eid", "salaryDetails", "salary">>

\* the characters of a string literal: a quote or a backslash is escaped
EscapeString(s) ==
    Undropped([i \in 1..(2 * Len(s)) |->
                  IF i % 2 = 1
                  THEN <<"\\", s[(i + 1) \div 2] \notin {"\"", "\\"}>>
                  ELSE <<s[i \div 2], FALSE>>])

DigitChar(d) == CHOOSE c \in Digits : DigitVal(c) = d

RECURSIVE NumberChars(_)
NumberChars(n) ==
    IF n < 10 THEN <<DigitChar(n)>>
    ELSE NumberChars(n \div 10) \o <<DigitChar(n % 10)>>

RECURSIVE Flatten(_)
\* the concatenation of the sequences of parts
Flatten(parts) ==
    IF parts = <<>> THEN <<>> ELSE Head(parts) \o Flatten(Tail(parts))

RECURSIVE JSONStringify(_)
RECURSIVE StringifyMembers(_)
RECURSIVE StringifyElements(_)

JSONStringify(v) ==
    CASE v.t = "null" -> <<"null">>
      [] v.t = "boolean" -> IF v.b THEN <<"true">> ELSE <<"false">>
      [] v.t = "number" -> NumberChars(v.n)
      [] v.t = "string" -> <<"\"">> \o EscapeString(v.s) \o <<"\"">>
      [] v.t = "array" -> <<"[">> \o StringifyElements(v.a) \o <<"]">>
      [] v.t = "object" -> <<"{">> \o StringifyMembers(v.f) \o <<"}">>

\* the members of an object, separated by commas
StringifyMembers(f) ==
    LET Present(k) == <<k>> \in DOMAIN f
        names == SelectSeq(KeyOrder, Present)
    IN Flatten([i \in 1..Len(names) |->
                   (IF i > 1 THEN <<",">> ELSE <<>>)
                       \o <<"\"", names[i], "\"", ":">>
                       \o JSONStringify(f[<<names[i]>>])])

\* the elements of an array, separated by commas
StringifyElements(a) ==
    Flatten([i \in 1..Len(a) |->
                (IF i > 1 THEN <<",">> ELSE <<>>) \o JSONStringify(a[i])])

JsonScalars ==
    {NullV, Bool(TRUE), Bool(FALSE), Num(0), Num(5), Num(12), Str(<<>>),
     Str(<<"a">>), Str(<<"a", "\"", "b">>)}

\* values of the profile property of a payload
ProfileSections ==
    {Obj(NoProps),
     Obj(Prop("email", Str(<<"a">>))),
     Obj(Prop("email", Str(<<"a", "\"", "b">>)) @@ Prop("name", Str(<<"b">>))),
     Obj(Prop("mobile", NullV)),
     Obj(Prop("other", Num(5))),
     NullV,
     Str(<<"a">>)}

\* values of the employment property of a payload
EmploymentSections ==
    {Arr(<<>>),
     Arr(<<NullV>>),
     Arr(<<Obj(NoProps)>>),
     Arr(<<Obj(Prop("id", Str(<<"e1">>)) @@ Prop("eid", Str(<<"e2">>))
               @@ Prop("salaryDetails", Obj(Prop("salary", Num(5)))))>>),
     Arr(<<Obj(Prop("id", Str(<<"e1">>))), NullV>>),
     Arr(<<Obj(Prop("eid", Str(<<"e2">>))),
           Obj(Prop("id", Str(<<"e9">>))
               @@ Prop("salaryDetails", Obj(Prop("salary", Num(12)))))>>),
     Arr(<<Obj(Prop("salaryDetails", Obj(NoProps)))>>),
     Obj(Prop("id", Str(<<"e1">>)))}

JsonObjects ==
    {Obj(p @@ e @@ o) :
        p \in {NoProps} \cup {Prop("profile", x) : x \in ProfileSections},
        e \in {NoProps} \cup {Prop("employment", x) : x \in EmploymentSections},
        o \in {NoProps, Prop("other", Num(5))}}

JsonArrays ==
    {Arr(<<>>), Arr(<<Num(5)>>), Arr(<<Obj(Prop("profile", Obj(Prop("email", Str(<<"a">>)))))>>)}

JsonStructures == JsonObjects \cup JsonArrays

JsonValues == JsonStructures \cup JsonScalars

\* the characters of the arbitrary payload strings
GarbageChars == {"{", "}", "\"", "\\", "a", "5"}

RECURSIVE SeqsUpTo(_, _)
\* the sequences over S of length at most n
SeqsUpTo(S, n) ==
    IF n = 0 THEN {<<>>}
    ELSE LET shorter == SeqsUpTo(S, n - 1) IN
         shorter \cup {Append(s, x) : s \in shorter, x \in S}

Origin(kind, v, cut) == [kind |-> kind, v |-> v, cut |-> cut]

Origins ==
    {Origin("structured", v, 0) : v \in JsonStructures}
    \cup {Origin(k, v, 0) : k \in {"single", "double", "doubleBare"}, v \in JsonValues}
    \cup {Origin("truncated", v, n) : v \in JsonValues, n \in 1..MaxCut}
    \cup {Origin("garbage", Str(s), 0) : s \in SeqsUpTo(GarbageChars, MaxGarbageLen)}
    \cup {Origin("absent", v, 0) : v \in {Undef, NullV, Str(<<>>), Num(0)}}

\* the payload made from twice, the serialization of a serialization: all of
\* it, or what is between its outer quotes
Reencoded(o, twice) ==
    IF o.kind = "double" THEN Str(twice) ELSE Str(SubSeq(twice, 2, Len(twice) - 1))

\* the payload made from once, the serialization of o.v
Encoded(o, once) ==
    CASE o.kind = "single" -> Str(once)
      [] o.kind = "truncated" -> Str(SubSeq(once, 1, Len(once) - o.cut))
      [] OTHER -> Reencoded(o, JSONStringify(Str(once)))

\* the payload of origin o: the value itself, its serialization, its
\* serialization serialized again (with or without the outer quotes), a
\* serialization cut short, or an arbitrary string
PayloadOf(o) ==
    IF o.kind \in {"structured", "garbage", "absent"} THEN o.v
    ELSE Encoded(o, JSONStringify(o.v))

(***************************************************************************)
(* The documents the backend can return.  A page is a sequence of indices  *)
(* into DocTable.                                                          *)
(***************************************************************************)
LogDoc(ts, uid, payload) ==
    Obj(Prop("@timestamp", Str(<<ts>>)) @@ Prop("uid", Str(<<uid>>))
        @@ Prop("payload", payload))

DocTable ==
    << \* {"profile":{"email":"a"}} as a JSON string
       LogDoc("2025-01-15T01:00:00Z", "u1",
              Str(<<"{", "\"", "profile", "\"", ":", "{", "\"", "email", "\"", ":",
                    "\"", "a", "\"", "}", "}">>)),
       \* a payload already structured, with one employment entry
       LogDoc("2025-01-16T01:00:00Z", "u2",
              Obj(Prop("employment",
                       Arr(<<Obj(Prop("id", Str(<<"e1">>))
                                 @@ Prop("salaryDetails",
                                         Obj(Prop("salary", Num(5)))))>>)))),
       \* no payload at all
       Obj(Prop("@timestamp", Str(<<"2025-01-15T02:00:00Z">>))
           @@ Prop("uid", Str(<<"u3">>))),
       \* {"employment":[null]} as a JSON string
       LogDoc("2025-01-15T03:00:00Z", "u4",
              Str(<<"{", "\"", "employment", "\"", ":", "[", "null", "]", "}">>)) >>

DocIds == 1..Len(DocTable)

\* the instant an @timestamp denotes for the backend, in hours from
\* 2025-01-15T00:00Z; the date field accepts ISO date-times and epoch
\* milliseconds
HoursOf(ts) ==
    CASE ts = <<"2025-01-14T15:00:00Z">> -> 0 - 9
      [] ts = <<"2025-01-14T16:00:00Z">> -> 0 - 8
      [] ts = <<"2025-01-15T01:00:00Z">> -> 1
      [] ts = <<"1736902800000">> -> 1
      [] ts = <<"2025-01-15T02:00:00Z">> -> 2
      [] ts = <<"2025-01-15T03:00:00Z">> -> 3
      [] ts = <<"2025-01-15T16:00:00Z">> -> 16
      [] ts = <<"2025-01-16T01:00:00Z">> -> 25

\* the instants the backend holds for the @timestamp field of a document:
\* none for a document without the field
InstantsOf(doc) ==
    IF Get(doc, "@timestamp").t = "string"
    THEN {HoursOf(Get(doc, "@timestamp").s)} ELSE {}

\* the instants of the documents of a table, by document index
IndexOf(table) == [d \in 1..Len(table) |-> InstantsOf(table[d])]

Queries == {"retrieveUserInfo", "bukopin"}

\* extractPayloadFields on every document of DocTable, per query type
Projection ==
    [q \in Queries |-> [d \in DocIds |-> extractPayloadFields(DocTable[d], q)]]

(***************************************************************************)
(* services/database.ts and the sink behind it.                            *)
(***************************************************************************)
\* Timestamps a Date can be built from
IsoInstants ==
    {<<"2025-01-14T15:00:00Z">>, <<"2025-01-14T16:00:00Z">>,
     <<"2025-01-15T01:00:00Z">>, <<"2025-01-15T02:00:00Z">>,
     <<"2025-01-15T03:00:00Z">>, <<"2025-01-15T16:00:00Z">>,
     <<"2025-01-16T01:00:00Z">>}

\* new Date(v)
NewDate(v) ==
    CASE v.t = "string" /\ v.s \in IsoInstants -> [t |-> "date", time |-> v.s]
      [] v.t = "null" -> [t |-> "date", time |-> <<"1970-01-01T00:00:00Z">>]
      [] OTHER -> [t |-> "date", time |-> <<"Invalid Date">>]

\* v?.k
OptGet(v, k) == IF v.t \in {"undefined", "null"} THEN Undef ELSE Get(v, k)

\* one element of recordsToCreate in batchInsertUserRecords
UserRow(doc) ==
    LET payload == Get(doc, "payload")
        profile == Get(payload, "profile")
        employment == Get(payload, "employment")
    IN [login_time |-> NewDate(Get(doc, "@timestamp")),
        uid |-> Get(doc, "uid"),
        email |-> OptGet(profile, "email"),
        mobile |-> OptGet(profile, "mobile"),
        name |-> OptGet(profile, "name"),
        id_type |-> OptGet(profile, "idType"),
        id_no |-> OptGet(profile, "idNo"),
        ebid |-> OptGet(employment, "id"),
        eid |-> OptGet(employment, "eid"),
        salary |-> OptGet(OptGet(employment, "salaryDetails"), "salary")]

\* one element of recordsToCreate in batchInsertBukopinRecords
BukopinRow(doc) ==
    [timestamp |-> NewDate(Get(doc, "@timestamp")),
     payload |-> Get(Get(doc, "payload"), "raw")]

\* @@unique([login_time, uid])
UserKey(row) == <<row.login_time, row.uid>>

\* @@unique([timestamp, payload])
BukopinKey(row) == <<row.timestamp, row.payload>>

RECURSIVE InsertWithoutUniqueKey(_, _, _)
\* InsertSkippingDuplicates on a table without the unique constraint: every
\* row is created
InsertWithoutUniqueKey(keys, store, count) ==
    IF keys = <<>> THEN [store |-> store, count |-> count]
    ELSE InsertWithoutUniqueKey(Tail(keys), store \cup {Head(keys)}, count + 1)

RECURSIVE InsertSkippingDuplicates(_, _, _)
\* createMany({data: keys, skipDuplicates: true}) on a table holding the
\* unique keys of store: the table afterwards and the count of rows created
InsertSkippingDuplicates(keys, store, count) ==
    IF keys = <<>> THEN [store |-> store, count |-> count]
    ELSE IF Head(keys) \in store
         THEN InsertSkippingDuplicates(Tail(keys), store, count)
         ELSE InsertSkippingDuplicates(Tail(keys), store \cup {Head(keys)}, count + 1)

\* the sink's answer to createMany: it raises (fails) and stores nothing, or
\* it reports the count of the rows it persisted
CreateMany(keys, store, fails) ==
    IF fails THEN [raised |-> TRUE, count |-> 0, store |-> store]
    ELSE LET r == InsertSkippingDuplicates(keys, store, 0) IN
         [raised |-> FALSE, count |-> r.count, store |-> r.store]

\* what a batch insert gives back to run: the counts it returns, or threw;
\* store is the table afterwards, called tells whether createMany was invoked
InsertResult(threw, inserted, skipped, store, called) ==
    [threw |-> threw, inserted |-> inserted, skipped |-> skipped,
     store |-> store, called |-> called]

\* batchInsertResult with the catch block re-raising the sink's error
batchInsertResultRethrows(n, result) ==
    IF result.raised
    THEN InsertResult(TRUE, 0, 0, result.store, TRUE)
    ELSE InsertResult(FALSE, result.count, n - result.count, result.store, TRUE)

\* batchInsertResult with the catch block returning no counts for the batch
batchInsertResultFailedUncounted(n, result) ==
    IF result.raised
    THEN InsertResult(FALSE, 0, 0, result.store, TRUE)
    ELSE InsertResult(FALSE, result.count, n - result.count, result.store, TRUE)

\* batchInsertResult with skippedCount = batch.length
batchInsertResultAllSkipped(n, result) ==
    IF result.raised
    THEN InsertResult(FALSE, 0, n, result.store, TRUE)
    ELSE InsertResult(FALSE, result.count, n, result.store, TRUE)

\* the try/catch around createMany, for a batch of n records: the counts
\* returned for the sink's answer result
batchInsertResult(n, result) ==
    IF result.raised
    THEN InsertResult(FALSE, 0, n, result.store, TRUE)
    ELSE InsertResult(FALSE, result.count, n - result.count, result.store, TRUE)

\* batchInsertUserRecords without the early return for an empty batch
batchInsertUserRecordsUnguarded(batch, store, fails) ==
    LET recordsToCreate == [i \in 1..Len(batch) |-> UserRow(batch[i])]
        keys == [i \in 1..Len(batch) |-> UserKey(recordsToCreate[i])]
    IN batchInsertResult(Len(batch), CreateMany(keys, store, fails))

batchInsertUserRecords(batch, store, fails) ==
    IF Len(batch) = 0 THEN InsertResult(FALSE, 0, 0, store, FALSE)
    ELSE LET recordsToCreate == [i \in 1..Len(batch) |-> UserRow(batch[i])]
             keys == [i \in 1..Len(batch) |-> UserKey(recordsToCreate[i])]
         IN batchInsertResult(Len(batch), CreateMany(keys, store, fails))

batchInsertBukopinRecords(batch, store, fails) ==
    IF Len(batch) = 0 THEN InsertResult(FALSE, 0, 0, store, FALSE)
    ELSE LET recordsToCreate == [i \in 1..Len(batch) |-> BukopinRow(batch[i])]
             keys == [i \in 1..Len(batch) |-> BukopinKey(recordsToCreate[i])]
         IN batchInsertResult(Len(batch), CreateMany(keys, store, fails))

(***************************************************************************)
(* The state of one execution of index.ts: run, the fetchLogs generator it *)
(* drives, the table behind the sink, and the history of the calls made.   *)
(***************************************************************************)
VARIABLES
    query,                      \* argv.query
    projection,                 \* extractPayloadFields(DocTable[d], argv.query) for
                                \* each document d: the function is pure, and its
                                \* results are computed once per run
    pc,                         \* the await or statement the execution is at
    scrollId,                   \* fetchLogs: scrollId (NoHandle: undefined)
    hits,                       \* fetchLogs: hits, as indices into DocTable
    pending,                    \* the exception in flight: none, fetchError, consumerError
    processedBatch,             \* run: processedBatch, as [id, doc]: the projection
                                \* of the id-th fetched document, DocTable[doc]
    totalProcessedCount,        \* run: totalProcessedCount
    totalInsertedCount,         \* run: totalInsertedCount
    totalSkippedPayloadCount,   \* run: totalSkippedPayloadCount
    totalDbSkippedCount,        \* run: totalDbSkippedCount
    exitCode,                   \* run: exitCode
    store,                      \* the unique keys of the rows the sink holds
    fetches,                    \* number of search/scroll requests issued
    log,                        \* the calls made so far, in order
    projected,                  \* the ids of the documents whose projection was
                                \* appended to processedBatch
    summary,                    \* <<counts>> once the summary is printed
    exitStatus,                 \* <<code>> once process.exit(code) is called
    origin,                     \* how the producer built the payload of source
    source,                     \* extractPayloadFields: source, in a call of the
                                \* function on its own
    parsedPayload,              \* extractPayloadFields: parsedPayload in that call
    outcome,                    \* what that call returned, or that it threw
    settings,                   \* what the process was started with: whether the
                                \* environment variables config.ts requires are set
                                \* (env), and argv.startDate and argv.endDate
    indexed,                    \* the backend: for each document, the instants of
                                \* its @timestamp field
    batchToInsert,              \* monolithic run: batchToInsert, as [id, doc]
    totalFailedToInsertCount,   \* monolithic run: totalFailedToInsertCount
    records,                    \* loadCsvData: the rows of the CSV file, of which
                                \* the parser has delivered the first
                                \* processedRecordCount
    loaderBatch,                \* loadCsvData: batch
    processedRecordCount,       \* loadCsvData: processedRecordCount
    insertedRecordCount,        \* loadCsvData: insertedRecordCount
    skippedRecordCount          \* loadCsvData: skippedRecordCount

vars ==
    <<query, projection, pc, scrollId, hits, pending, processedBatch, totalProcessedCount,
      totalInsertedCount, totalSkippedPayloadCount, totalDbSkippedCount,
      exitCode, store, fetches, log, projected, summary, exitStatus,
      origin, source, parsedPayload, outcome, settings, indexed,
      batchToInsert, totalFailedToInsertCount, records, loaderBatch,
      processedRecordCount, insertedRecordCount, skippedRecordCount>>

\* what the process is given, which it never changes
given == <<settings, indexed>>

\* the variables only the monolithic variant of run has
mono == <<batchToInsert, totalFailedToInsertCount>>

\* the variables of loadCsvData
loader ==
    <<records, loaderBatch, processedRecordCount, insertedRecordCount,
      skippedRecordCount>>

\* the variables of a call of extractPayloadFields on its own
call == <<origin, source, parsedPayload, outcome>>

counters ==
    <<totalProcessedCount, totalInsertedCount, totalSkippedPayloadCount,
      totalDbSkippedCount>>

\* let scrollId: string | undefined
NoHandle == 0

\* the handle the n-th request returns, when it returns one
Handle(n) == n

\* an entry of log: the call op, the cursor handle or the record ids it was
\* given, and whether it returned (ok) or raised; for a search or scroll,
\* page is the hits returned and next the handle fetchLogs holds afterwards
Event(op, handle, ids, ok) ==
    [op |-> op, handle |-> handle, ids |-> ids, ok |-> ok, page |-> <<>>,
     next |-> handle]

\* the entry of a search or scroll request that returned page and the handle next
Fetched(op, handle, page, next) ==
    [op |-> op, handle |-> handle, ids |-> <<>>, ok |-> TRUE, page |-> page,
     next |-> next]

\* parsedPayload before the decode step has assigned it
NotDecoded == [ran |-> FALSE, ok |-> FALSE, v |-> Undef]

\* parsedPayload after the decode step that gave d
Decoded(d) == [ran |-> TRUE, ok |-> d.ok, v |-> d.v]

\* outcome before extractPayloadFields is called
NotCalled == [called |-> FALSE, threw |-> FALSE, v |-> Undef]

\* outcome of the call that completed as r
Called(r) == [called |-> TRUE, threw |-> r.threw, v |-> r.v]

\* the keys of config.queries
ConfigQueries == {"retrieveUserInfo", "bukopin"}

\* choices of the query option
Choices == {"retrieveUserInfo", "bukopin"}

\* the values --query may be given on the command line
QueryArgs == Choices \cup {"other"}

\* the days given as --startDate and --endDate
Days == {"2025-01-15", "2025-01-16", "2025-01-17"}

\* an option that is not on the command line
NotGiven == "none"

\* the process is started with everything config.ts and the options demand,
\* with the window from startDate to endDate
SettingsFor(startDate, endDate) ==
    [env |-> TRUE, startDate |-> startDate, endDate |-> endDate]

CompleteSettings == SettingsFor("2025-01-15", "2025-01-17")

\* 00:00 UTC of a day, in hours from 2025-01-15T00:00Z
UtcMidnight(day) ==
    CASE day = "2025-01-15" -> 0
      [] day = "2025-01-16" -> 24
      [] day = "2025-01-17" -> 48

\* EsDate without the +08:00 offset
EsDateUtc(day) == [date |-> day, hour |-> 0, offset |-> 0]

\* `${day}T00:00:00+08:00`
EsDate(day) == [date |-> day, hour |-> 0, offset |-> 8]

\* the instant a date string with an offset denotes
InstantOf(date) == UtcMidnight(date.date) + date.hour - date.offset

\* range: {"@timestamp": {gte: startDate, lt: endDate, time_zone: "+08:00"}}
RangeFilter(startDate, endDate) ==
    [gte |-> startDate, lt |-> endDate, time_zone |-> 8]

\* the request of client.search as run has fetchLogs build it: the range
\* filter over the window, the fields retrieved, the page size, and no sort
\* clause
SearchRequest(s, queryType) ==
    [range |-> RangeFilter(EsDate(s.startDate), EsDate(s.endDate)),
     fields |-> IF queryType = "bukopin" THEN {"@timestamp", "payload"}
                ELSE {"@timestamp", "uid", "payload"},
     size |-> pageSize,
     sort |-> <<>>]

\* the range filter accepts a document with these instants: the bounds
\* carry their own offset, so time_zone does not shift them
Accepts(range, instants) ==
    \E t \in instants : InstantOf(range.gte) <= t /\ t < InstantOf(range.lt)

\* the documents that match the request
Matching(request) == {d \in DOMAIN indexed : Accepts(request.range, indexed[d])}

\* the processed document a buffer element stands for
Processed(e) == projection[e.doc].v

\* the monolithic run before its first statement
MonoIdle == batchToInsert = <<>> /\ totalFailedToInsertCount = 0

\* loadCsvData before its first statement, on the rows of a CSV file
LoaderIdle(rows) ==
    /\ records = rows
    /\ loaderBatch = <<>>
    /\ processedRecordCount = 0
    /\ insertedRecordCount = 0
    /\ skippedRecordCount = 0

Init ==
    /\ query \in Queries
    /\ projection = Projection[query]
    /\ pc = "search"
    /\ scrollId = NoHandle
    /\ hits = <<>>
    /\ pending = "none"
    /\ processedBatch = <<>>
    /\ totalProcessedCount = 0
    /\ totalInsertedCount = 0
    /\ totalSkippedPayloadCount = 0
    /\ totalDbSkippedCount = 0
    /\ exitCode = 0
    /\ store = {}
    /\ fetches = 0
    /\ log = <<>>
    /\ projected = {}
    /\ summary = <<>>
    /\ exitStatus = <<>>
    /\ origin = Origin("absent", Undef, 0)
    /\ source = Undef
    /\ parsedPayload = NotDecoded
    /\ outcome = NotCalled
    /\ settings = CompleteSettings
    /\ indexed = IndexOf(DocTable)
    /\ MonoIdle
    /\ LoaderIdle(<<>>)

(***************************************************************************)
(* fetchLogs                                                               *)
(***************************************************************************)
\* const queryConfig = config.queries[queryType]; if (!queryConfig) throw:
\* the query type has a configuration
HasQueryConfig(queryType) == queryType \in ConfigQueries

\* LoopContinues without the test of scrollId
LoopContinuesOnHits(h, sid) == Len(h) > 0

\* while (hits && hits.length > 0 && scrollId)
LoopContinues(h, sid) == Len(h) > 0 /\ sid # NoHandle

\* ShouldRelease with the release left out
ShouldReleaseNever(sid) == FALSE

\* finally: if (scrollId)
ShouldRelease(sid) == sid # NoHandle

\* AfterRelease with clearError propagating out of the finally block
AfterReleaseEscalates(inFlight, clearRaised) ==
    IF clearRaised THEN "releaseError" ELSE inFlight

\* the completion that leaves fetchLogs after its finally block: clearError
\* is caught and logged, so the completion in flight is kept
AfterRelease(inFlight, clearRaised) == inFlight

\* the smaller of two numbers
Min(a, b) == IF a <= b THEN a ELSE b

\* the pages the backend may answer a request with: at most request.size
\* documents that match it, in any order as it has no sort clause; the
\* backend has at most left documents left to return
PagesFor(request, left) == SeqsUpTo(Matching(request), Min(request.size, left))

\* the pages the backend may answer the next request with; every page
\* returned so far has been counted in totalProcessedCount
Answers == PagesFor(SearchRequest(settings, query), MaxDocs - totalProcessedCount)

\* AfterResponse without the update of scrollId after a scroll: the handle
\* of the search is kept for every later request
AfterResponseKeepsFirstHandle(page, handle) ==
    /\ hits' = page
    /\ scrollId' = IF scrollId = NoHandle THEN handle ELSE scrollId
    /\ pc' = IF LoopContinues(page, handle) THEN "process" ELSE "finally"

\* what follows a response (page, handle) inside fetchLogs: the page is
\* yielded to run, or the loop ends and the finally block is entered
AfterResponse(page, handle) ==
    /\ hits' = page
    /\ scrollId' = handle
    /\ pc' = IF LoopContinues(page, handle) THEN "process" ELSE "finally"

\* run calls fetchLogs: the throw for an unknown query type, which is before
\* the try block, or client.search
Search ==
    /\ pc = "search"
    /\ IF ~HasQueryConfig(query)
       THEN /\ pending' = "fetchError"
            /\ pc' = "catch"
            /\ UNCHANGED <<hits, scrollId, fetches, log>>
       ELSE /\ fetches' = fetches + 1
            /\ \/ \E page \in Answers, handle \in {NoHandle, Handle(fetches + 1)} :
                    /\ AfterResponse(page, handle)
                    /\ log' = Append(log, Fetched("search", NoHandle, page, handle))
                    /\ UNCHANGED pending
               \/ /\ pending' = "fetchError"
                  /\ pc' = "finally"
                  /\ log' = Append(log, Event("search", NoHandle, <<>>, FALSE))
                  /\ UNCHANGED <<hits, scrollId>>
    /\ UNCHANGED <<call, given, mono, loader, query, projection, processedBatch, counters, exitCode, store, projected,
                   summary, exitStatus>>

\* the generator is resumed after a page: client.scroll
Scroll ==
    /\ pc = "scroll"
    /\ fetches' = fetches + 1
    /\ \/ \E page \in Answers, handle \in {NoHandle, Handle(fetches + 1)} :
            /\ AfterResponse(page, handle)
            /\ log' = Append(log, Fetched("scroll", scrollId, page, handle))
            /\ UNCHANGED pending
       \/ /\ pending' = "fetchError"
          /\ pc' = "finally"
          /\ log' = Append(log, Event("scroll", scrollId, <<>>, FALSE))
          /\ UNCHANGED <<hits, scrollId>>
    /\ UNCHANGED <<call, given, mono, loader, query, projection, processedBatch, counters, exitCode, store, projected,
                   summary, exitStatus>>

\* the finally block of fetchLogs, entered when the loop ends, when a fetch
\* raised, or when run abandons the iteration (return() of the generator)
Finally ==
    /\ pc = "finally"
    /\ \/ /\ ShouldRelease(scrollId)
          /\ \E clearRaised \in BOOLEAN :
                /\ log' = Append(log, Event("clearScroll", scrollId, <<>>, ~clearRaised))
                /\ pending' = AfterRelease(pending, clearRaised)
       \/ /\ ~ShouldRelease(scrollId)
          /\ UNCHANGED <<log, pending>>
    /\ pc' = IF pending' = "none" THEN "flush" ELSE "catch"
    /\ UNCHANGED <<call, given, mono, loader, query, projection, scrollId, hits, processedBatch, counters, exitCode,
                   store, fetches, projected, summary, exitStatus>>

(***************************************************************************)
(* run                                                                     *)
(***************************************************************************)
\* ShouldSubmit with a buffer of batchSize records left to grow
ShouldSubmitAbove(batch) == Len(batch) > batchSize

\* if (processedBatch.length >= batchSize)
ShouldSubmit(batch) == Len(batch) >= batchSize

\* ShouldFlush with the test of the loop: only a full buffer is submitted
ShouldFlushWhenFull(batch) == Len(batch) >= batchSize

\* if (processedBatch.length > 0)
ShouldFlush(batch) == Len(batch) > 0

\* exitCode set by the catch block of run
CatchExitCode == 1

RECURSIVE KeptOfReversed(_, _, _)
\* KeptOf with the records of a page entering the buffer last document first
KeptOfReversed(page, base, i) ==
    IF i > Len(page) THEN <<>>
    ELSE LET rest == KeptOfReversed(page, base, i + 1) IN
         IF Truthy(projection[page[i]].v)
         THEN rest \o <<[id |-> base + i, doc |-> page[i]]>>
         ELSE rest

RECURSIVE KeptOf(_, _, _)
\* the loop over processedDocs: the buffer elements of the documents of page
\* whose projection is truthy, in page order; the i-th document of the page
\* is fetched document number base + i
KeptOf(page, base, i) ==
    IF i > Len(page) THEN <<>>
    ELSE LET rest == KeptOf(page, base, i + 1) IN
         IF Truthy(projection[page[i]].v)
         THEN <<[id |-> base + i, doc |-> page[i]]>> \o rest
         ELSE rest

\* batchInsertBukopinRecords or batchInsertUserRecords, by argv.query
BatchInsert(batch, fails) ==
    LET docs == [i \in 1..Len(batch) |-> Processed(batch[i])] IN
    IF query = "bukopin" THEN batchInsertBukopinRecords(docs, store, fails)
    ELSE batchInsertUserRecords(docs, store, fails)

\* the ids of the buffer elements of batch
IdsOf(batch) == [i \in 1..Len(batch) |-> batch[i].id]

\* the body of the for await loop up to its first await: count the page,
\* project its documents, append the projections to processedBatch
ProcessPage ==
    /\ pc = "process"
    /\ totalProcessedCount' = totalProcessedCount + Len(hits)
    /\ IF \E i \in 1..Len(hits) : projection[hits[i]].threw
       THEN /\ pending' = "consumerError"
            /\ pc' = "finally"
            /\ UNCHANGED <<processedBatch, totalSkippedPayloadCount, projected>>
       ELSE LET kept == KeptOf(hits, totalProcessedCount, 1) IN
            /\ processedBatch' = processedBatch \o kept
            /\ projected' = projected \cup {kept[i].id : i \in 1..Len(kept)}
            /\ totalSkippedPayloadCount' =
                   totalSkippedPayloadCount + (Len(hits) - Len(kept))
            /\ pc' = IF ShouldSubmit(processedBatch') THEN "submit" ELSE "scroll"
            /\ UNCHANGED pending
    /\ UNCHANGED <<call, given, mono, loader, query, projection, scrollId, hits, totalInsertedCount, totalDbSkippedCount,
                   exitCode, store, fetches, log, summary, exitStatus>>

\* AfterInsert keeping the batch in the buffer when the sink raised, so that
\* it is submitted again with the next batch
AfterInsertRetriesFailed(result, fails, next) ==
    /\ store' = result.store
    /\ log' = IF result.called
              THEN Append(log, Event("createMany", NoHandle, IdsOf(processedBatch), ~fails))
              ELSE log
    /\ IF result.threw
       THEN /\ pending' = "consumerError"
            /\ pc' = IF next = "scroll" THEN "finally" ELSE "catch"
            /\ UNCHANGED <<processedBatch, totalInsertedCount, totalDbSkippedCount>>
       ELSE /\ totalInsertedCount' = totalInsertedCount + result.inserted
            /\ totalDbSkippedCount' = totalDbSkippedCount + result.skipped
            /\ processedBatch' = IF fails THEN processedBatch ELSE <<>>
            /\ pc' = next
            /\ UNCHANGED pending

\* what run does with the result of a batch insert, and where it goes next;
\* fails tells whether the sink raised on this call
AfterInsert(result, fails, next) ==
    /\ store' = result.store
    /\ log' = IF result.called
              THEN Append(log, Event("createMany", NoHandle, IdsOf(processedBatch), ~fails))
              ELSE log
    /\ IF result.threw
       THEN /\ pending' = "consumerError"
            /\ pc' = IF next = "scroll" THEN "finally" ELSE "catch"
            /\ UNCHANGED <<processedBatch, totalInsertedCount, totalDbSkippedCount>>
       ELSE /\ totalInsertedCount' = totalInsertedCount + result.inserted
            /\ totalDbSkippedCount' = totalDbSkippedCount + result.skipped
            /\ processedBatch' = <<>>
            /\ pc' = next
            /\ UNCHANGED pending

\* the batch insert inside the loop, once the buffer reached batchSize
SubmitBatch ==
    /\ pc = "submit"
    /\ \E fails \in BOOLEAN : AfterInsert(BatchInsert(processedBatch, fails), fails, "scroll")
    /\ UNCHANGED <<call, given, mono, loader, query, projection, scrollId, hits, totalProcessedCount,
                   totalSkippedPayloadCount, exitCode, fetches, projected, summary,
                   exitStatus>>

\* after the loop: insert any remaining documents in the last batch
FinalFlush ==
    /\ pc = "flush"
    /\ \/ /\ ShouldFlush(processedBatch)
          /\ \E fails \in BOOLEAN :
                AfterInsert(BatchInsert(processedBatch, fails), fails, "summary")
       \/ /\ ~ShouldFlush(processedBatch)
          /\ pc' = "summary"
          /\ UNCHANGED <<store, log, pending, processedBatch, totalInsertedCount,
                         totalDbSkippedCount>>
    /\ UNCHANGED <<call, given, mono, loader, query, projection, scrollId, hits, totalProcessedCount,
                   totalSkippedPayloadCount, exitCode, fetches, projected, summary,
                   exitStatus>>

\* the counts the summary prints
Counts ==
    [fetched |-> totalProcessedCount, skippedPayload |-> totalSkippedPayloadCount,
     inserted |-> totalInsertedCount, dbSkipped |-> totalDbSkippedCount]

\* the summary block at the end of the try block of run
ReportSummary ==
    /\ pc = "summary"
    /\ summary' = <<Counts>>
    /\ pc' = "disconnect"
    /\ UNCHANGED <<call, given, mono, loader, query, projection, scrollId, hits, pending, processedBatch, counters,
                   exitCode, store, fetches, log, projected, exitStatus>>

\* the catch block of run
CatchError ==
    /\ pc = "catch"
    /\ exitCode' = CatchExitCode
    /\ pc' = "disconnect"
    /\ UNCHANGED <<call, given, mono, loader, query, projection, scrollId, hits, pending, processedBatch, counters,
                   store, fetches, log, projected, summary, exitStatus>>

\* DisconnectDb with the call of disconnectDb left out of the finally block
ExitWithoutDisconnect ==
    /\ pc = "disconnect"
    /\ exitStatus' = <<exitCode>>
    /\ pc' = "exited"
    /\ UNCHANGED <<call, given, mono, loader, query, projection, scrollId, hits, pending, processedBatch, counters,
                   exitCode, store, fetches, log, projected, summary>>

\* the finally block of run: disconnectDb, then process.exit(exitCode); when
\* disconnectDb raises, run() rejects and the handler of run().catch runs
DisconnectDb ==
    /\ pc = "disconnect"
    /\ \/ /\ log' = Append(log, Event("disconnect", NoHandle, <<>>, TRUE))
          /\ exitStatus' = <<exitCode>>
          /\ pc' = "exited"
       \/ /\ log' = Append(log, Event("disconnect", NoHandle, <<>>, FALSE))
          /\ pc' = "unhandled"
          /\ UNCHANGED exitStatus
    /\ UNCHANGED <<call, given, mono, loader, query, projection, scrollId, hits, pending, processedBatch, counters,
                   exitCode, store, fetches, projected, summary>>

\* run().catch: disconnectDb().finally(() => process.exit(1))
UnhandledError ==
    /\ pc = "unhandled"
    /\ \E ok \in BOOLEAN : log' = Append(log, Event("disconnect", NoHandle, <<>>, ok))
    /\ exitStatus' = <<1>>
    /\ pc' = "exited"
    /\ UNCHANGED <<call, given, mono, loader, query, projection, scrollId, hits, pending, processedBatch, counters,
                   exitCode, store, fetches, projected, summary>>

Next ==
    \/ Search
    \/ ProcessPage
    \/ SubmitBatch
    \/ Scroll
    \/ Finally
    \/ FinalFlush
    \/ ReportSummary
    \/ CatchError
    \/ DisconnectDb
    \/ UnhandledError

Spec == Init /\ [][Next]_vars

(***************************************************************************)
(* extractPayloadFields on its own: one call of the function on a document *)
(* whose payload is drawn from Origins, under either query type.           *)
(***************************************************************************)
\* the uid of the documents: present, or missing
Uids == {Str(<<"u1">>), Undef}

\* the document with the payload of origin o
SourceOf(o, uid) ==
    Obj(Prop("@timestamp", Str(<<"2025-01-15T01:00:00Z">>)) @@ Prop("uid", uid)
        @@ Prop("payload", PayloadOf(o)))

\* the call gets past the early returns of lines 5 to 16
DecodeReached(src, queryType) ==
    Truthy(src) /\ Truthy(Get(src, "payload")) /\ queryType # "bukopin"

ProjectorInit ==
    /\ query \in Queries
    /\ origin \in Origins
    /\ \E uid \in Uids : source = SourceOf(origin, uid)
    /\ parsedPayload = NotDecoded
    /\ outcome = NotCalled
    /\ settings = CompleteSettings
    /\ indexed = IndexOf(DocTable)
    /\ MonoIdle
    /\ LoaderIdle(<<>>)
    /\ pc = "project"
    /\ projection = Projection[query]
    /\ scrollId = NoHandle
    /\ hits = <<>>
    /\ pending = "none"
    /\ processedBatch = <<>>
    /\ totalProcessedCount = 0
    /\ totalInsertedCount = 0
    /\ totalSkippedPayloadCount = 0
    /\ totalDbSkippedCount = 0
    /\ exitCode = 0
    /\ store = {}
    /\ fetches = 0
    /\ log = <<>>
    /\ projected = {}
    /\ summary = <<>>
    /\ exitStatus = <<>>

\* the call extractPayloadFields(source, argv.query)
Project ==
    /\ pc = "project"
    /\ outcome' = Called(extractPayloadFields(source, query))
    /\ parsedPayload' = IF DecodeReached(source, query)
                        THEN Decoded(DecodeStep(Get(source, "payload")))
                        ELSE NotDecoded
    /\ pc' = "projected"
    /\ UNCHANGED <<origin, source, given, mono, loader, query, projection, scrollId, hits,
                   pending, processedBatch, counters, exitCode, store, fetches, log,
                   projected, summary, exitStatus>>

ProjectorNext == Project

ProjectorSpec == ProjectorInit /\ [][ProjectorNext]_vars

(***************************************************************************)
(* run on documents whose @timestamp or uid is missing or malformed: the   *)
(* same steps as Spec, on the documents of EnvelopeTable.                  *)
(***************************************************************************)
\* {"profile":{"email":"a"}} as a JSON string
ProfilePayload ==
    Str(<<"{", "\"", "profile", "\"", ":", "{", "\"", "email", "\"", ":",
          "\"", "a", "\"", "}", "}">>)

EnvelopeTable ==
    << LogDoc("2025-01-15T01:00:00Z", "u1", ProfilePayload),
       \* no @timestamp
       Obj(Prop("uid", Str(<<"u2">>)) @@ Prop("payload", ProfilePayload)),
       \* an @timestamp in epoch milliseconds, which the backend takes as a
       \* date and new Date does not
       LogDoc("1736902800000", "u3", ProfilePayload),
       \* no uid
       Obj(Prop("@timestamp", Str(<<"2025-01-15T03:00:00Z">>))
           @@ Prop("payload", ProfilePayload)) >>

\* extractPayloadFields on every document of EnvelopeTable, per query type
EnvelopeProjection ==
    [q \in Queries |->
        [d \in 1..Len(EnvelopeTable) |-> extractPayloadFields(EnvelopeTable[d], q)]]

EnvelopeInit ==
    /\ query \in Queries
    /\ projection = EnvelopeProjection[query]
    /\ pc = "search"
    /\ scrollId = NoHandle
    /\ hits = <<>>
    /\ pending = "none"
    /\ processedBatch = <<>>
    /\ totalProcessedCount = 0
    /\ totalInsertedCount = 0
    /\ totalSkippedPayloadCount = 0
    /\ totalDbSkippedCount = 0
    /\ exitCode = 0
    /\ store = {}
    /\ fetches = 0
    /\ log = <<>>
    /\ projected = {}
    /\ summary = <<>>
    /\ exitStatus = <<>>
    /\ origin = Origin("absent", Undef, 0)
    /\ source = Undef
    /\ parsedPayload = NotDecoded
    /\ outcome = NotCalled
    /\ settings = CompleteSettings
    /\ indexed = IndexOf(EnvelopeTable)
    /\ MonoIdle
    /\ LoaderIdle(<<>>)

EnvelopeSpec == EnvelopeInit /\ [][Next]_vars

(***************************************************************************)
(* run over a backend that holds documents before, at and after the bounds *)
(* of the window from 2025-01-15 to 2025-01-16: the same steps as Spec, on *)
(* the documents of WindowTable.                                           *)
(***************************************************************************)
WindowTable ==
    << \* one hour before the start of the window
       LogDoc("2025-01-14T15:00:00Z", "u1", ProfilePayload),
       \* 2025-01-15T00:00:00+08:00, the start of the window
       LogDoc("2025-01-14T16:00:00Z", "u2", ProfilePayload),
       \* inside the window
       LogDoc("2025-01-15T01:00:00Z", "u3", ProfilePayload),
       \* 2025-01-16T00:00:00+08:00, the end of the window
       LogDoc("2025-01-15T16:00:00Z", "u4", ProfilePayload),
       \* after the end of the window
       LogDoc("2025-01-16T01:00:00Z", "u5", ProfilePayload) >>

\* extractPayloadFields on every document of WindowTable, per query type
WindowProjection ==
    [q \in Queries |->
        [d \in 1..Len(WindowTable) |-> extractPayloadFields(WindowTable[d], q)]]

WindowInit ==
    /\ query \in Queries
    /\ settings = SettingsFor("2025-01-15", "2025-01-16")
    /\ indexed = IndexOf(WindowTable)
    /\ MonoIdle
    /\ LoaderIdle(<<>>)
    /\ projection = WindowProjection[query]
    /\ pc = "search"
    /\ scrollId = NoHandle
    /\ hits = <<>>
    /\ pending = "none"
    /\ processedBatch = <<>>
    /\ totalProcessedCount = 0
    /\ totalInsertedCount = 0
    /\ totalSkippedPayloadCount = 0
    /\ totalDbSkippedCount = 0
    /\ exitCode = 0
    /\ store = {}
    /\ fetches = 0
    /\ log = <<>>
    /\ projected = {}
    /\ summary = <<>>
    /\ exitStatus = <<>>
    /\ origin = Origin("absent", Undef, 0)
    /\ source = Undef
    /\ parsedPayload = NotDecoded
    /\ outcome = NotCalled

WindowSpec == WindowInit /\ [][Next]_vars

(***************************************************************************)
(* index.ts from the start of the process: the imports (config.ts checks   *)
(* the environment), the parsing of the command line, then run.            *)
(***************************************************************************)
\* RequiredEnvPresent without the check of config.ts
RequiredEnvIgnored(s) == TRUE

\* config.ts: ELASTIC_CLOUD_ID, ELASTIC_API_KEY and ELASTIC_INDEX_PATTERN
\* are all set
RequiredEnvPresent(s) == s.env

\* the options satisfy demandOption and choices
OptionsAccepted(s, q) ==
    s.startDate # NotGiven /\ s.endDate # NotGiven /\ q \in Choices

\* extractPayloadFields on every document of DocTable, per value of --query
StartupProjection ==
    [q \in QueryArgs |-> [d \in DocIds |-> extractPayloadFields(DocTable[d], q)]]

StartupInit ==
    /\ query \in QueryArgs
    /\ settings \in [env : BOOLEAN, startDate : {NotGiven, "2025-01-15"},
                    endDate : {NotGiven, "2025-01-17"}]
    /\ indexed = IndexOf(DocTable)
    /\ MonoIdle
    /\ LoaderIdle(<<>>)
    /\ projection = StartupProjection[query]
    /\ pc = "load"
    /\ scrollId = NoHandle
    /\ hits = <<>>
    /\ pending = "none"
    /\ processedBatch = <<>>
    /\ totalProcessedCount = 0
    /\ totalInsertedCount = 0
    /\ totalSkippedPayloadCount = 0
    /\ totalDbSkippedCount = 0
    /\ exitCode = 0
    /\ store = {}
    /\ fetches = 0
    /\ log = <<>>
    /\ projected = {}
    /\ summary = <<>>
    /\ exitStatus = <<>>
    /\ origin = Origin("absent", Undef, 0)
    /\ source = Undef
    /\ parsedPayload = NotDecoded
    /\ outcome = NotCalled

\* import of config.ts: the throw at module level is an uncaught exception,
\* which ends the process with status 1
LoadConfig ==
    /\ pc = "load"
    /\ IF RequiredEnvPresent(settings)
       THEN pc' = "parseArgs" /\ UNCHANGED exitStatus
       ELSE pc' = "exited" /\ exitStatus' = <<1>>
    /\ UNCHANGED <<call, given, mono, loader, query, projection, scrollId, hits, pending,
                   processedBatch, counters, exitCode, store, fetches, log,
                   projected, summary>>

\* yargs(...).parseSync(): a missing required option or a query outside the
\* choices is reported and the process exits with status 1; else run() is
\* called
ParseArgs ==
    /\ pc = "parseArgs"
    /\ IF OptionsAccepted(settings, query)
       THEN pc' = "search" /\ UNCHANGED exitStatus
       ELSE pc' = "exited" /\ exitStatus' = <<1>>
    /\ UNCHANGED <<call, given, mono, loader, query, projection, scrollId, hits, pending,
                   processedBatch, counters, exitCode, store, fetches, log,
                   projected, summary>>

StartupNext == LoadConfig \/ ParseArgs \/ Next

StartupSpec == StartupInit /\ [][StartupNext]_vars

(***************************************************************************)
(* run under external cancellation.  index.ts registers no handler for a   *)
(* termination signal, so a signal delivered while run is in progress ends *)
(* the process at once with the status of a signal exit; no catch or       *)
(* finally block runs.                                                     *)
(***************************************************************************)
\* a termination signal arrives while the process is running
Cancel ==
    /\ pc # "exited"
    /\ pc' = "exited"
    /\ exitStatus' = <<130>>
    /\ UNCHANGED <<call, given, mono, loader, query, projection, scrollId, hits, pending,
                   processedBatch, counters, exitCode, store, fetches, log,
                   projected, summary>>

CancelNext == Next \/ Cancel

CancelSpec == Init /\ [][CancelNext]_vars

(***************************************************************************)
(* The monolithic variant of the pipeline: one run function that searches, *)
(* projects and loads, with createMany called inline.                      *)
(***************************************************************************)
\* the monolithic extractPayloadFields after the decode step: a record
\* whatever sections the payload has
MonoRecordOf(src, decoded) ==
    IF ~decoded.ok THEN Returned(NullV)
    ELSE IF EmploymentThrows(decoded.v) THEN Threw
    ELSE Returned(Obj(Prop("@timestamp", Get(src, "@timestamp"))
                      @@ Prop("uid", Get(src, "uid"))
                      @@ Prop("payload",
                              Obj(ProfilePart(decoded.v) @@ EmploymentPart(decoded.v)))))

\* the monolithic extractPayloadFields(source)
MonoExtractPayloadFields(src) ==
    IF ~Truthy(src) \/ ~Truthy(Get(src, "payload")) THEN Returned(NullV)
    ELSE MonoRecordOf(src, DecodeStep(Get(src, "payload")))

\* v ?? null
OrNull(v) == IF v.t \in {"undefined", "null"} THEN NullV ELSE v

\* prismaData: the row built from processedDoc
PrismaData(processedDoc) ==
    [k \in DOMAIN UserRow(processedDoc) |->
        IF k \in {"login_time", "uid"} THEN UserRow(processedDoc)[k]
        ELSE OrNull(UserRow(processedDoc)[k])]

\* what the body of the for loop over hits does with what extractPayloadFields
\* gave for the hit: the exception, or the rows pushed to batchToInsert, none
\* when the hit is counted as skipped
PushedFor(extracted) ==
    IF extracted.threw THEN [threw |-> TRUE, v |-> <<>>]
    ELSE IF ~Truthy(extracted.v) THEN [threw |-> FALSE, v |-> <<>>]
    ELSE IF \/ PrismaData(extracted.v).login_time.time = <<"Invalid Date">>
            \/ ~Truthy(PrismaData(extracted.v).uid)
         THEN [threw |-> FALSE, v |-> <<>>]
         ELSE [threw |-> FALSE, v |-> <<PrismaData(extracted.v)>>]

\* the handling of every document of DocTable by the monolithic run
MonoProjection == [d \in DocIds |-> PushedFor(MonoExtractPayloadFields(DocTable[d]))]

\* the request of client.search in the monolithic run: the window, the page
\* size (5000, scaled down) and the sort clause, newest first
MonoSearchRequest(s) ==
    [range |-> RangeFilter(EsDate(s.startDate), EsDate(s.endDate)),
     fields |-> {"@timestamp", "uid", "payload"},
     size |-> pageSize,
     sort |-> <<[field |-> "@timestamp", order |-> "desc"]>>]

\* the pages the backend may answer the next request of the monolithic run
\* with: hits that match, newest first
MonoAnswers ==
    {page \in PagesFor(MonoSearchRequest(settings), MaxDocs - totalProcessedCount) :
        \A i, j \in 1..Len(page) :
            i < j => \A a \in indexed[page[i]], b \in indexed[page[j]] : a >= b}

\* the variables the monolithic run does not have
notInMono ==
    <<call, given, loader, query, projection, pending, processedBatch,
      totalDbSkippedCount, projected>>

MonoInit ==
    /\ query = "retrieveUserInfo"
    /\ projection = MonoProjection
    /\ pc = "search"
    /\ scrollId = NoHandle
    /\ hits = <<>>
    /\ pending = "none"
    /\ processedBatch = <<>>
    /\ totalProcessedCount = 0
    /\ totalInsertedCount = 0
    /\ totalSkippedPayloadCount = 0
    /\ totalDbSkippedCount = 0
    /\ exitCode = 0
    /\ store = {}
    /\ fetches = 0
    /\ log = <<>>
    /\ projected = {}
    /\ summary = <<>>
    /\ exitStatus = <<>>
    /\ origin = Origin("absent", Undef, 0)
    /\ source = Undef
    /\ parsedPayload = NotDecoded
    /\ outcome = NotCalled
    /\ settings = CompleteSettings
    /\ indexed = IndexOf(DocTable)
    /\ MonoIdle
    /\ LoaderIdle(<<>>)

\* where the run goes after a response: while (hits && hits.length > 0)
MonoAfterResponse(page, handle) ==
    /\ hits' = page
    /\ scrollId' = handle
    /\ pc' = IF Len(page) > 0 THEN "process" ELSE "flush"

\* an exception reaches the catch block of run, which sets exitCode
MonoCatch ==
    /\ exitCode' = 1
    /\ pc' = "finally"

\* client.search, the first statement of the try block
MonoSearch ==
    /\ pc = "search"
    /\ fetches' = fetches + 1
    /\ \/ \E page \in MonoAnswers, handle \in {NoHandle, Handle(fetches + 1)} :
            /\ MonoAfterResponse(page, handle)
            /\ log' = Append(log, Fetched("search", NoHandle, page, handle))
            /\ UNCHANGED exitCode
       \/ /\ MonoCatch
          /\ log' = Append(log, Event("search", NoHandle, <<>>, FALSE))
          /\ UNCHANGED <<hits, scrollId>>
    /\ UNCHANGED <<notInMono, mono, totalProcessedCount, totalInsertedCount,
                   totalSkippedPayloadCount, store, summary, exitStatus>>

\* the position in page of the first hit whose handling throws, or one past
\* the page
FirstThrow(page) ==
    IF \A i \in 1..Len(page) : ~projection[page[i]].threw THEN Len(page) + 1
    ELSE CHOOSE i \in 1..Len(page) :
            /\ projection[page[i]].threw
            /\ \A j \in 1..(i - 1) : ~projection[page[j]].threw

\* the hit of a buffer element had a row pushed
IsPushed(e) == projection[e.doc].v # <<>>

\* the elements pushed to batchToInsert for the first n hits of page; the
\* i-th hit of the page is fetched document number base + i
PushedOf(page, base, n) ==
    SelectSeq([i \in 1..n |-> [id |-> base + i, doc |-> page[i]]], IsPushed)

\* the loop body up to its first await: count the page, then hit by hit
\* project, map and push, or count the hit as skipped; an exception of
\* extractPayloadFields ends the loop at its hit
MonoProcessPage ==
    /\ pc = "process"
    /\ totalProcessedCount' = totalProcessedCount + Len(hits)
    /\ batchToInsert' =
          batchToInsert \o PushedOf(hits, totalProcessedCount, FirstThrow(hits) - 1)
    /\ totalSkippedPayloadCount' =
          totalSkippedPayloadCount + (FirstThrow(hits) - 1)
              - (Len(batchToInsert') - Len(batchToInsert))
    /\ IF FirstThrow(hits) <= Len(hits)
       THEN MonoCatch
       ELSE /\ pc' = IF Len(batchToInsert') >= batchSize THEN "submit" ELSE "scroll"
            /\ UNCHANGED exitCode
    /\ UNCHANGED <<notInMono, totalFailedToInsertCount, scrollId, hits,
                   totalInsertedCount, store, fetches, log, summary, exitStatus>>

\* the try and catch around createMany for a batch of n rows: the counts and
\* exitCode after the sink's answer result
MonoAfterInsert(result, n) ==
    /\ store' = result.store
    /\ log' = Append(log, Event("createMany", NoHandle, IdsOf(batchToInsert),
                                ~result.raised))
    /\ totalInsertedCount' = totalInsertedCount + result.count
    /\ totalFailedToInsertCount' =
          totalFailedToInsertCount + (IF result.raised THEN n ELSE n - result.count)
    /\ exitCode' = IF result.raised THEN 1 ELSE exitCode

\* the unique keys of the rows of a buffer
MonoKeys(buffer) ==
    [i \in 1..Len(buffer) |-> UserKey(projection[buffer[i].doc].v[1])]

\* if (batchToInsert.length >= batchSize): createMany, then the reset
MonoSubmitBatch ==
    /\ pc = "submit"
    /\ \E fails \in BOOLEAN :
          MonoAfterInsert(CreateMany(MonoKeys(batchToInsert), store, fails),
                          Len(batchToInsert))
    /\ batchToInsert' = <<>>
    /\ pc' = "scroll"
    /\ UNCHANGED <<notInMono, scrollId, hits, totalProcessedCount,
                   totalSkippedPayloadCount, fetches, summary, exitStatus>>

\* client.scroll with the handle held; without a handle the request has no
\* scroll_id and is refused
MonoScroll ==
    /\ pc = "scroll"
    /\ fetches' = fetches + 1
    /\ \/ /\ scrollId # NoHandle
          /\ \E page \in MonoAnswers, handle \in {NoHandle, Handle(fetches + 1)} :
                /\ MonoAfterResponse(page, handle)
                /\ log' = Append(log, Fetched("scroll", scrollId, page, handle))
                /\ UNCHANGED exitCode
       \/ /\ MonoCatch
          /\ log' = Append(log, Event("scroll", scrollId, <<>>, FALSE))
          /\ UNCHANGED <<hits, scrollId>>
    /\ UNCHANGED <<notInMono, mono, totalProcessedCount, totalInsertedCount,
                   totalSkippedPayloadCount, store, summary, exitStatus>>

\* after the loop: createMany for the remaining rows, without a reset
MonoFinalInsert ==
    /\ pc = "flush"
    /\ IF Len(batchToInsert) > 0
       THEN \E fails \in BOOLEAN :
               MonoAfterInsert(CreateMany(MonoKeys(batchToInsert), store, fails),
                               Len(batchToInsert))
       ELSE UNCHANGED <<store, log, totalInsertedCount, totalFailedToInsertCount,
                        exitCode>>
    /\ pc' = "finally"
    /\ UNCHANGED <<notInMono, batchToInsert, scrollId, hits, totalProcessedCount,
                   totalSkippedPayloadCount, fetches, summary, exitStatus>>

\* the counts the summary of the monolithic run prints
MonoCounts ==
    [fetched |-> totalProcessedCount, skippedPayload |-> totalSkippedPayloadCount,
     inserted |-> totalInsertedCount, failed |-> totalFailedToInsertCount]

\* the calls of the finally block: clearScroll when a handle is held, its
\* error caught, then prisma.$disconnect()
CleanupCalls(released, disconnected) ==
    (IF scrollId # NoHandle
     THEN <<Event("clearScroll", scrollId, <<>>, released)>> ELSE <<>>)
        \o <<Event("disconnect", NoHandle, <<>>, disconnected)>>

\* the finally block of the monolithic run: the cleanup calls, the summary
\* and process.exit(exitCode); when $disconnect raises the rest of the block
\* is not run and run() rejects
MonoFinally ==
    /\ pc = "finally"
    /\ \E released, disconnected \in BOOLEAN :
          /\ log' = log \o CleanupCalls(released, disconnected)
          /\ IF disconnected
             THEN /\ summary' = <<MonoCounts>>
                  /\ exitStatus' = <<exitCode>>
                  /\ pc' = "exited"
             ELSE /\ pc' = "unhandled"
                  /\ UNCHANGED <<summary, exitStatus>>
    /\ UNCHANGED <<notInMono, mono, scrollId, hits, totalProcessedCount,
                   totalInsertedCount, totalSkippedPayloadCount, exitCode, store,
                   fetches>>

\* run().catch: prisma.$disconnect().finally(() => process.exit(1))
MonoUnhandled ==
    /\ pc = "unhandled"
    /\ \E ok \in BOOLEAN : log' = Append(log, Event("disconnect", NoHandle, <<>>, ok))
    /\ exitStatus' = <<1>>
    /\ pc' = "exited"
    /\ UNCHANGED <<notInMono, mono, scrollId, hits, totalProcessedCount,
                   totalInsertedCount, totalSkippedPayloadCount, exitCode, store,
                   fetches, summary>>

MonoNext ==
    \/ MonoSearch
    \/ MonoProcessPage
    \/ MonoSubmitBatch
    \/ MonoScroll
    \/ MonoFinalInsert
    \/ MonoFinally
    \/ MonoUnhandled

MonoSpec == MonoInit /\ [][MonoNext]_vars

(***************************************************************************)
(* loadData.ts: loadCsvData reads the rows of a CSV file through a parser  *)
(* that casts the values, and loads them into the UserLogin table in       *)
(* batches.  The files of the model have the columns login_time and uid.   *)
(***************************************************************************)
\* the login_time values of the rows of a file, all different
LoginTimes ==
    << <<"2025-01-15T01:00:00Z">>, <<"2025-01-15T02:00:00Z">>,
       <<"2025-01-15T03:00:00Z">>, <<"2025-01-15T16:00:00Z">>,
       <<"2025-01-16T01:00:00Z">>, <<"2025-01-14T15:00:00Z">>,
       <<"2025-01-14T16:00:00Z">> >>

\* what the login_time field of a row holds: a date of its own, the date of
\* the first row, nothing, blanks, or text that is no date
RowKinds == {"dated", "repeated", "empty", "blank", "text"}

\* row number i of a file, of the given kind
CsvRow(kind, i) ==
    [login_time |-> CASE kind = "dated" -> LoginTimes[i]
                      [] kind = "repeated" -> LoginTimes[1]
                      [] kind = "empty" -> <<>>
                      [] kind = "blank" -> <<" ">>
                      [] kind = "text" -> <<"not a date">>,
     uid |-> <<"u1">>]

\* the CSV files of up to MaxRows rows
CsvFiles ==
    UNION {{[i \in 1..n |-> CsvRow(kinds[i], i)] : kinds \in [1..n -> RowKinds]} :
              n \in 0..MaxRows}

\* trim: true
Trimmed(value) == IF value = <<" ">> THEN <<>> ELSE value

\* the cast option of the parser, for a column other than salary: null for
\* the empty string, for login_time the Date or undefined, else the string
CastValue(value, column) ==
    IF value = <<>> THEN NullV
    ELSE IF column = "login_time"
         THEN IF NewDate(Str(value)).time = <<"Invalid Date">> THEN Undef
              ELSE NewDate(Str(value))
         ELSE Str(value)

\* the record the parser delivers for a row
RecordOfRow(row) ==
    [login_time |-> CastValue(Trimmed(row.login_time), "login_time"),
     uid |-> CastValue(Trimmed(row.uid), "uid")]

\* createMany({data: rows, skipDuplicates: false}) on the UserLogin table:
\* it raises for a row without its required login_time, for a row whose
\* (login_time, uid) is in the table or twice in rows, or for a reason of its
\* own (fails); else every row is created
LoaderCreateMany(rows, table, fails) ==
    IF \/ fails
       \/ \E i \in 1..Len(rows) : rows[i].login_time.t # "date"
       \/ \E i \in 1..Len(rows) : UserKey(rows[i]) \in table
       \/ \E i, j \in 1..Len(rows) : i < j /\ UserKey(rows[i]) = UserKey(rows[j])
    THEN [raised |-> TRUE, count |-> 0, store |-> table]
    ELSE [raised |-> FALSE, count |-> Len(rows),
          store |-> table \cup {UserKey(rows[i]) : i \in 1..Len(rows)}]

\* the rows of a buffer of loadCsvData
RowsOf(buffer) == [i \in 1..Len(buffer) |-> buffer[i].row]

\* the variables loadCsvData does not have
notInLoader ==
    <<call, given, mono, query, projection, scrollId, hits, processedBatch,
      totalProcessedCount, totalInsertedCount, totalSkippedPayloadCount,
      totalDbSkippedCount, exitCode, fetches, projected>>

LoaderInit ==
    /\ query = "retrieveUserInfo"
    /\ projection = <<>>
    /\ pc = "read"
    /\ scrollId = NoHandle
    /\ hits = <<>>
    /\ pending = "none"
    /\ processedBatch = <<>>
    /\ totalProcessedCount = 0
    /\ totalInsertedCount = 0
    /\ totalSkippedPayloadCount = 0
    /\ totalDbSkippedCount = 0
    /\ exitCode = 0
    /\ store = {}
    /\ fetches = 0
    /\ log = <<>>
    /\ projected = {}
    /\ summary = <<>>
    /\ exitStatus = <<>>
    /\ origin = Origin("absent", Undef, 0)
    /\ source = Undef
    /\ parsedPayload = NotDecoded
    /\ outcome = NotCalled
    /\ settings = CompleteSettings
    /\ indexed = <<>>
    /\ MonoIdle
    /\ \E file \in CsvFiles : LoaderIdle(file)

\* if (record.login_time === undefined): the record is skipped, else kept
LoaderKeeps(record) == record.login_time.t # "undefined"

\* AfterRecord submitting only a batch of more than batchSize records
AfterRecordAbove(record) ==
    /\ processedRecordCount' = processedRecordCount + 1
    /\ IF LoaderKeeps(record)
       THEN /\ loaderBatch' = Append(loaderBatch,
                                     [id |-> processedRecordCount + 1, row |-> record])
            /\ pc' = IF Len(loaderBatch') > batchSize THEN "submit" ELSE "read"
            /\ UNCHANGED skippedRecordCount
       ELSE /\ skippedRecordCount' = skippedRecordCount + 1
            /\ pc' = "read"
            /\ UNCHANGED loaderBatch

\* what the loop body does with the record the parser delivered: count it,
\* then skip it or push it, and go to the insert when the batch is full
AfterRecord(record) ==
    /\ processedRecordCount' = processedRecordCount + 1
    /\ IF LoaderKeeps(record)
       THEN /\ loaderBatch' = Append(loaderBatch,
                                     [id |-> processedRecordCount + 1, row |-> record])
            /\ pc' = IF Len(loaderBatch') >= batchSize THEN "submit" ELSE "read"
            /\ UNCHANGED skippedRecordCount
       ELSE /\ skippedRecordCount' = skippedRecordCount + 1
            /\ pc' = "read"
            /\ UNCHANGED loaderBatch

\* for await (const record of parser): the next record, the end of the
\* file, or an error of the stream, which the catch block logs
LoaderRead ==
    /\ pc = "read"
    /\ \/ /\ processedRecordCount < Len(records)
          /\ AfterRecord(RecordOfRow(records[processedRecordCount + 1]))
          /\ UNCHANGED pending
       \/ /\ processedRecordCount = Len(records)
          /\ pc' = "flush"
          /\ UNCHANGED <<pending, processedRecordCount, skippedRecordCount, loaderBatch>>
       \/ /\ processedRecordCount < Len(records)
          /\ pending' = "readError"
          /\ pc' = "disconnect"
          /\ UNCHANGED <<processedRecordCount, skippedRecordCount, loaderBatch>>
    /\ UNCHANGED <<notInLoader, records, insertedRecordCount, store, log, summary,
                   exitStatus>>

\* the createMany call on the batch and what follows its answer: the count
\* is added, or the error goes to the catch block, which logs it
LoaderInsert(result) ==
    /\ log' = Append(log, Event("createMany", NoHandle, loaderBatch, ~result.raised))
    /\ store' = result.store
    /\ insertedRecordCount' = insertedRecordCount + result.count
    /\ pending' = IF result.raised THEN "sinkError" ELSE pending

\* if (batch.length >= batchSize): createMany, then the reset of the batch
LoaderSubmit ==
    /\ pc = "submit"
    /\ \E fails \in BOOLEAN :
          LoaderInsert(LoaderCreateMany(RowsOf(loaderBatch), store, fails))
    /\ IF pending' = "none"
       THEN loaderBatch' = <<>> /\ pc' = "read"
       ELSE pc' = "disconnect" /\ UNCHANGED loaderBatch
    /\ UNCHANGED <<notInLoader, records, processedRecordCount, skippedRecordCount,
                   summary, exitStatus>>

\* the counts of the summary of loadCsvData
LoaderCounts ==
    [processed |-> processedRecordCount, inserted |-> insertedRecordCount',
     skipped |-> skippedRecordCount]

\* after the loop: createMany for the remaining records, and the summary
LoaderFlush ==
    /\ pc = "flush"
    /\ IF Len(loaderBatch) > 0
       THEN \E fails \in BOOLEAN :
               LoaderInsert(LoaderCreateMany(RowsOf(loaderBatch), store, fails))
       ELSE UNCHANGED <<log, store, insertedRecordCount, pending>>
    /\ summary' = IF pending' = "none" THEN <<LoaderCounts>> ELSE summary
    /\ pc' = "disconnect"
    /\ UNCHANGED <<notInLoader, records, loaderBatch, processedRecordCount,
                   skippedRecordCount, exitStatus>>

\* the finally block: prisma.$disconnect(); loadCsvData then returns and the
\* process ends with status 0, or $disconnect raises and the handler of
\* loadCsvData().catch runs
LoaderDisconnect ==
    /\ pc = "disconnect"
    /\ \/ /\ log' = Append(log, Event("disconnect", NoHandle, <<>>, TRUE))
          /\ exitStatus' = <<0>>
          /\ pc' = "exited"
       \/ /\ log' = Append(log, Event("disconnect", NoHandle, <<>>, FALSE))
          /\ pc' = "unhandled"
          /\ UNCHANGED exitStatus
    /\ UNCHANGED <<notInLoader, loader, pending, store, summary>>

\* loadCsvData().catch: prisma.$disconnect().finally(() => process.exit(1))
LoaderUnhandled ==
    /\ pc = "unhandled"
    /\ \E ok \in BOOLEAN : log' = Append(log, Event("disconnect", NoHandle, <<>>, ok))
    /\ exitStatus' = <<1>>
    /\ pc' = "exited"
    /\ UNCHANGED <<notInLoader, loader, pending, store, summary>>

LoaderNext ==
    \/ LoaderRead
    \/ LoaderSubmit
    \/ LoaderFlush
    \/ LoaderDisconnect
    \/ LoaderUnhandled

LoaderSpec == LoaderInit /\ [][LoaderNext]_vars

(***************************************************************************)
(* The pipeline with progress: every call of run and fetchLogs returns or  *)
(* raises, so a step that can be taken is taken; the backend returns at    *)
(* most MaxDocs documents and then a page without hits.                    *)
(***************************************************************************)
LiveSpec == Init /\ [][Next]_vars /\ WF_vars(Next)

(***************************************************************************)
(* Vocabulary of the properties.                                           *)
(***************************************************************************)
\* the positions in log of the calls op
Calls(op) == {i \in 1..Len(log) : log[i].op = op}

\* the positions in log of the search and scroll requests
FetchCalls == Calls("search") \cup Calls("scroll")

\* the positions of the calls op that raised
Raised(op) == {i \in Calls(op) : ~log[i].ok}

FetchFailed == \E i \in FetchCalls : ~log[i].ok

SinkRaised == Raised("createMany") # {}

\* fetchLogs is over: its finally block has run
TornDown == pc \notin {"search", "process", "submit", "scroll", "finally"}

Exited == pc = "exited"

\* the number of createMany calls that were given the record id
TimesSubmitted(id) == Cardinality({i \in Calls("createMany") :
                                      \E j \in 1..Len(log[i].ids) : log[i].ids[j] = id})

\* the step is a createMany call that raised
SinkRaisesInStep ==
    /\ Len(log') = Len(log) + 1
    /\ log'[Len(log')].op = "createMany"
    /\ ~log'[Len(log')].ok

\* the step is a createMany call
SinkCalledInStep ==
    /\ Len(log') = Len(log) + 1
    /\ log'[Len(log')].op = "createMany"

\* the step is a clearScroll call that raised
ReleaseRaisesInStep ==
    /\ Len(log') = Len(log) + 1
    /\ log'[Len(log')].op = "clearScroll"
    /\ ~log'[Len(log')].ok

\* a page that was yielded to run holds a document whose projection throws
ProjectionThrew ==
    \E i \in FetchCalls :
        /\ log[i].ok
        /\ LoopContinues(log[i].page, log[i].next)
        /\ \E j \in 1..Len(log[i].page) : projection[log[i].page[j]].threw

\* the request that raised, when FetchFailed
FailedFetch == CHOOSE i \in FetchCalls : ~log[i].ok

\* a fetch raised and the error has left fetchLogs
FetchErrorReachedRun == pending = "fetchError" /\ TornDown

(***************************************************************************)
(* C1.  Whenever the initial search returned a cursor handle, clearScroll  *)
(* is attempted exactly once by the time fetchLogs is torn down, however   *)
(* the iteration ended.                                                    *)
(***************************************************************************)
C1_ReleaseExactlyOnce ==
    /\ Cardinality(Calls("clearScroll")) <= 1
    /\ (TornDown /\ log[1].ok /\ log[1].next # NoHandle)
          => Cardinality(Calls("clearScroll")) = 1

(***************************************************************************)
(* C2.  When the process has exited, however the run ended, every record   *)
(* that projection produced was submitted to the sink in exactly one       *)
(* createMany call, and none is left in the buffer.                        *)
(***************************************************************************)
C2_EveryProjectedSubmittedOnce ==
    Exited => /\ processedBatch = <<>>
              /\ \A id \in projected : TimesSubmitted(id) = 1

(***************************************************************************)
(* C3.  No createMany call holds more than batchSize records, and a run    *)
(* that completed issued ceil(N / batchSize) calls for its N projected     *)
(* records, each of exactly batchSize records except possibly the last.    *)
(***************************************************************************)
C3_BatchBoundary ==
    LET subs == Calls("createMany")
        N == Cardinality(projected)
    IN /\ \A i \in subs : Len(log[i].ids) <= batchSize
       /\ (Exited /\ pending = "none") =>
             /\ Cardinality(subs) = (N + batchSize - 1) \div batchSize
             /\ \A i \in subs : \/ Len(log[i].ids) = batchSize
                                \/ \A j \in subs : j <= i

(***************************************************************************)
(* C4.  The exit status is zero exactly when every fetch succeeded and     *)
(* every createMany call returned without raising: a fetch failure or a    *)
(* raising sink call makes it non-zero.                                    *)
(***************************************************************************)
C4_ExitStatusReflectsFailures ==
    Exited => /\ (FetchFailed \/ SinkRaised) => exitStatus # <<0>>
              /\ exitStatus = <<0>> => ~FetchFailed /\ ~SinkRaised

(***************************************************************************)
(* C5.  A batch whose createMany call raised adds nothing to the count of  *)
(* records skipped as duplicates: inserted plus duplicate-skipped is the   *)
(* number of records of the createMany calls that returned normally.       *)
(***************************************************************************)
RECURSIVE SumLen(_, _)
\* the number of records given to the createMany calls at the positions S
SumLen(S, total) ==
    IF S = {} THEN total
    ELSE LET i == CHOOSE x \in S : TRUE IN SumLen(S \ {i}, total + Len(log[i].ids))

C5_RaisedBatchNotSkipped ==
    totalInsertedCount + totalDbSkippedCount
        = SumLen(Calls("createMany") \ Raised("createMany"), 0)

(***************************************************************************)
(* C6.  A createMany call that raises does not abort the run: in that step *)
(* the buffer is reset, no exception is put in flight, and the run goes on *)
(* to the next scroll (or, after the final batch, to the summary); a run   *)
(* in which no fetch failed and no projection threw ends with the summary  *)
(* printed and every projected record submitted, whatever the sink did.    *)
(***************************************************************************)
C6_SinkRaiseDoesNotAbort ==
    /\ [][SinkRaisesInStep =>
            /\ processedBatch' = <<>>
            /\ pending' = pending
            /\ exitCode' = exitCode
            /\ pc' = IF pc = "submit" THEN "scroll" ELSE "summary"]_vars
    /\ []((Exited /\ ~FetchFailed /\ ~ProjectionThrew) =>
            /\ processedBatch = <<>>
            /\ \A id \in projected : TimesSubmitted(id) = 1
            /\ summary # <<>>)

\* a run has exited in which a createMany call raised, a page was fetched
\* after it and a later batch was submitted
C6_Witness ==
    /\ Exited
    /\ \E i \in Raised("createMany") :
          /\ \E j \in Calls("scroll") : j > i /\ log[j].ok /\ log[j].page # <<>>
          /\ \E j \in Calls("createMany") : j > i

(***************************************************************************)
(* C7.  As claimed: when a fetch (the initial search or a scroll) raises,  *)
(* clearScroll is called right after it, before the error reaches run, no  *)
(* further fetch is issued and the exit status is non-zero.                *)
(***************************************************************************)
C7_ReleaseOnAnyFetchError ==
    FetchErrorReachedRun =>
        /\ FailedFetch < Len(log)
        /\ log[FailedFetch + 1].op = "clearScroll"
        /\ \A i \in FetchCalls : i <= FailedFetch
        /\ Exited => exitStatus # <<0>>

(***************************************************************************)
(* C7 as amended.  When a scroll raises, clearScroll is called with the    *)
(* handle of that scroll right after it, before the error reaches run;     *)
(* when the initial search raises no cursor exists and clearScroll is not  *)
(* called; either way no further fetch is issued and the exit status is    *)
(* non-zero.                                                               *)
(***************************************************************************)
C7_ReleaseOnScrollError ==
    FetchErrorReachedRun =>
        /\ log[FailedFetch].op = "scroll" =>
              /\ FailedFetch < Len(log)
              /\ log[FailedFetch + 1].op = "clearScroll"
              /\ log[FailedFetch + 1].handle = log[FailedFetch].handle
        /\ log[FailedFetch].op = "search" => Calls("clearScroll") = {}
        /\ \A i \in FetchCalls : i <= FailedFetch
        /\ Exited => exitStatus # <<0>>

\* a run has exited after a scroll raised
C7_Witness ==
    /\ Exited
    /\ Raised("scroll") # {}
    /\ Calls("clearScroll") # {}

(***************************************************************************)
(* C8.  A run in which a fetch failed after at least one page had been     *)
(* processed has printed the summary by the time it exits, with the counts *)
(* of the pages processed before the failure.                              *)
(***************************************************************************)
C8_SummaryAfterFetchFailure ==
    (Exited /\ FetchFailed /\ totalProcessedCount > 0) => summary = <<Counts>>

(***************************************************************************)
(* C9.  A clearScroll call that raises is not escalated: the step leaves   *)
(* the exception in flight, the exit code and the counts as they were, and *)
(* a run that is clean but for the failed release exits with status zero.  *)
(***************************************************************************)
C9_ReleaseFailureNotEscalated ==
    /\ [][ReleaseRaisesInStep =>
            /\ pending' = pending
            /\ exitCode' = exitCode
            /\ UNCHANGED counters
            /\ pc' = IF pending = "none" THEN "flush" ELSE "catch"]_vars
    /\ []((/\ Exited
           /\ Raised("clearScroll") # {}
           /\ ~FetchFailed
           /\ ~ProjectionThrew
           /\ Raised("disconnect") = {}) => exitStatus = <<0>>)

\* a run whose release failed has exited with status zero
C9_Witness ==
    /\ Exited
    /\ Raised("clearScroll") # {}
    /\ exitStatus = <<0>>

(***************************************************************************)
(* C10.  Every batch insert of n records returns counts with               *)
(* inserted >= 0, skipped >= 0 and inserted + skipped = n, inserted being  *)
(* the number of rows the sink persisted in that call.                     *)
(***************************************************************************)
C10_InsertedPlusSkipped ==
    [][SinkCalledInStep =>
          LET n == Len(processedBatch)
              inserted == totalInsertedCount' - totalInsertedCount
              skipped == totalDbSkippedCount' - totalDbSkippedCount
          IN /\ inserted >= 0
             /\ skipped >= 0
             /\ inserted + skipped = n
             /\ inserted = Cardinality(store') - Cardinality(store)]_vars

\* a createMany call returned after persisting some rows of its batch and
\* skipping others
C10_Witness ==
    /\ Raised("createMany") = {}
    /\ Cardinality(Calls("createMany")) = 1
    /\ totalInsertedCount > 0
    /\ totalDbSkippedCount > 0

(***************************************************************************)
(* C11.  A createMany call of batchInsertUserRecords that returns, for a   *)
(* batch of n records with pairwise distinct (login_time, uid) keys,       *)
(* leaves the table holding the rows it held and the keys of the batch,    *)
(* and reports as inserted the keys that were new.  So the first           *)
(* submission of the batch to a table holding none of its keys reports     *)
(* inserted = n, and a submission of the batch to a table holding all of   *)
(* them (the second submission) reports inserted = 0 and skipped = n and   *)
(* leaves the stored row count as it was.                                  *)
(***************************************************************************)
\* the (login_time, uid) keys of the rows batchInsertUserRecords builds from
\* the buffer
UserKeysOf(batch) ==
    {UserKey(UserRow(Processed(batch[i]))) : i \in 1..Len(batch)}

C11_LoadIdempotent ==
    [][(/\ query = "retrieveUserInfo"
        /\ SinkCalledInStep
        /\ ~SinkRaisesInStep
        /\ Cardinality(UserKeysOf(processedBatch)) = Len(processedBatch)) =>
          LET n == Len(processedBatch)
              keys == UserKeysOf(processedBatch)
              inserted == totalInsertedCount' - totalInsertedCount
              skipped == totalDbSkippedCount' - totalDbSkippedCount
          IN /\ store' = store \cup keys
             /\ inserted = Cardinality(keys \ store)
             /\ keys \cap store = {} =>
                   /\ inserted = n
                   /\ Cardinality(store') = Cardinality(store) + n
             /\ keys \subseteq store =>
                   /\ inserted = 0
                   /\ skipped = n
                   /\ Cardinality(store') = Cardinality(store)]_vars

\* the same batch of two records with distinct keys was submitted twice: the
\* first call inserted both, the second skipped both
C11_Witness ==
    /\ query = "retrieveUserInfo"
    /\ Len(log) = 4
    /\ log[1].ok /\ log[1].page = <<1, 2>>
    /\ log[2].op = "createMany" /\ log[2].ok
    /\ log[3].op = "scroll" /\ log[3].ok /\ log[3].page = <<1, 2>>
    /\ log[4].op = "createMany" /\ log[4].ok
    /\ totalInsertedCount = 2
    /\ totalDbSkippedCount = 2
    /\ Cardinality(store) = 2

(***************************************************************************)
(* C12.  Every hit a search or scroll request returned has been yielded to *)
(* run once fetchLogs is past that response: run counts the documents of   *)
(* each page it is given in totalProcessedCount, so outside the processing *)
(* of a page the count equals the number of hits returned so far.          *)
(***************************************************************************)
RECURSIVE SumPages(_, _)
\* the number of hits the requests at the positions S returned
SumPages(S, total) ==
    IF S = {} THEN total
    ELSE LET i == CHOOSE x \in S : TRUE IN SumPages(S \ {i}, total + Len(log[i].page))

C12_EveryHitYielded ==
    pc # "process" => totalProcessedCount = SumPages(FetchCalls, 0)

(***************************************************************************)
(* Vocabulary of C13.                                                      *)
(***************************************************************************)
\* the request at position i returned at least one hit and a cursor handle
HitsAndHandle(i) == log[i].ok /\ log[i].page # <<>> /\ log[i].next # NoHandle

\* the last search or scroll request before position i
FetchBefore(i) == CHOOSE j \in FetchCalls : j < i /\ \A k \in FetchCalls : k < i => k <= j

\* every scroll request follows a response with hits and a handle and is
\* given that handle; a response with no hit or no handle is the last
\* request and ends the page sequence
FetchOnlyAfterHitsAndHandle ==
    /\ \A i \in Calls("scroll") :
          /\ HitsAndHandle(FetchBefore(i))
          /\ log[i].handle = log[FetchBefore(i)].next
    /\ \A i \in FetchCalls :
          (log[i].ok /\ ~HitsAndHandle(i)) =>
              /\ \A j \in FetchCalls : j <= i
              /\ pc \notin {"process", "submit", "scroll"}
    /\ pc \in {"process", "submit", "scroll"} =>
          \E i \in FetchCalls : HitsAndHandle(i) /\ \A j \in FetchCalls : j <= i

\* the iteration is over although the last request returned hits and a handle
EndedAfterHitsAndHandle ==
    /\ TornDown
    /\ \E i \in FetchCalls : HitsAndHandle(i) /\ \A j \in FetchCalls : j <= i

C14_ProjectionRecoverable ==
    /\ pending # "consumerError"
    /\ pc # "process" =>
          totalProcessedCount = Cardinality(projected) + totalSkippedPayloadCount

(***************************************************************************)
(* Vocabulary of the properties of one call of extractPayloadFields.       *)
(***************************************************************************)
\* the call has returned or thrown, and had reached the decode step
DecodeStepRan == pc = "projected" /\ DecodeReached(source, query)

\* the payload is a string that JSON.parse rejects as it is and again after
\* the recovery pass
Undecodable(payload) ==
    /\ payload.t = "string"
    /\ ~JSONParse(payload.s).ok
    /\ ~ParseCorrected(ReplaceEscapedQuotes(payload.s)).ok

\* the payload is parsed, to a scalar or to null
ParsesToScalar(payload) ==
    DecodePayload(payload).ok /\ ~IsObjectLike(DecodePayload(payload).v)

\* the decode step returned null from the function
DecodeFailed ==
    /\ parsedPayload = Decoded([ok |-> FALSE, v |-> Undef])
    /\ outcome = Called(Returned(NullV))

(***************************************************************************)
(* C15.  For a string payload that is not valid JSON as it is nor after    *)
(* the recovery pass, and for a payload whose parsed result is a scalar or *)
(* null, the decode step makes extractPayloadFields return null, and the   *)
(* call does not throw.                                                    *)
(***************************************************************************)
C15_DecodeFailureReturnsNull ==
    (DecodeStepRan /\ (Undecodable(Get(source, "payload"))
                           \/ ParsesToScalar(Get(source, "payload"))))
        => DecodeFailed /\ ~outcome.threw

\* a payload cut short, rejected by both attempts, has returned null
C15_Witness ==
    /\ DecodeStepRan
    /\ origin.kind = "truncated"
    /\ Undecodable(Get(source, "payload"))
    /\ DecodeFailed

\* the payload is the value origin.v itself, or its serialization
SinglyEncoded == origin.kind \in {"structured", "single"}

\* the decode step produced the value the payload was made from
DecodedToOrigin == parsedPayload = Decoded([ok |-> TRUE, v |-> origin.v])

(***************************************************************************)
(* C16.  As stated: the decode step turns every payload that is the        *)
(* serialization of a JSON value, or is a structured object already, into  *)
(* that value, unchanged and not rejected.                                 *)
(***************************************************************************)
C16_SinglyEncodedUnchanged == (DecodeStepRan /\ SinglyEncoded) => DecodedToOrigin

(***************************************************************************)
(* C16, amended.  The decode step turns every payload that is the          *)
(* serialization of a JSON object or array, or is a structured object      *)
(* already, into that value, unchanged and not rejected.                   *)
(***************************************************************************)
C16_SinglyEncodedStructureUnchanged ==
    (DecodeStepRan /\ SinglyEncoded /\ IsObjectLike(origin.v)) => DecodedToOrigin

\* the serialization of an object with a quote inside a string was decoded
C16_Witness ==
    /\ DecodeStepRan
    /\ origin.kind = "single"
    /\ origin.v = Obj(Prop("profile", Obj(Prop("email", Str(<<"a", "\"", "b">>))
                                           @@ Prop("name", Str(<<"b">>)))))
    /\ DecodedToOrigin

(***************************************************************************)
(* C17.  The decode step turns the payload obtained by serializing a JSON  *)
(* object twice, with or without the outer quotes of the second            *)
(* serialization, back into that object.                                   *)
(***************************************************************************)
C17_DoubleEncodedRecovered ==
    (DecodeStepRan /\ origin.kind \in {"double", "doubleBare"}
                   /\ origin.v.t = "object") => DecodedToOrigin

\* the call returned a record, not null
ReturnedRecord == pc = "projected" /\ ~outcome.threw /\ outcome.v.t = "object"

\* the fields named in the structured profile, as found in the payload of a
\* returned record
NamedFields(payload) ==
    {Get(Get(payload, "profile"), k) : k \in {"email", "mobile", "name", "idType", "idNo"}}
    \cup {Get(Get(payload, "employment"), k) : k \in {"id", "eid"}}
    \cup {Get(Get(Get(payload, "employment"), "salaryDetails"), "salary")}

(***************************************************************************)
(* C18.  Under the structured profile every record extractPayloadFields    *)
(* returns has at least one of the named fields (email, mobile, name,      *)
(* idType, idNo, employment id, eid, salary) populated: a payload lacking  *)
(* all of them gives null, also when it has a profile or employment        *)
(* section.                                                                *)
(***************************************************************************)
C18_ReturnedRecordHasField ==
    (ReturnedRecord /\ query = "retrieveUserInfo")
        => \E field \in NamedFields(Get(outcome.v, "payload")) : field # Undef

\* what the call returns when it decodes the payload and keeps the decoded
\* value under raw: null for the failure decoded, else the record
RawRecordOf(src, decoded) ==
    IF ~decoded.ok THEN Returned(NullV)
    ELSE Returned(Obj(Prop("@timestamp", Get(src, "@timestamp"))
                      @@ Prop("uid", IF Truthy(Get(src, "uid"))
                                     THEN Get(src, "uid") ELSE Str(<<>>))
                      @@ Prop("payload", Obj(Prop("raw", decoded.v)))))

(***************************************************************************)
(* C19.  Under the bukopin query type extractPayloadFields decodes the     *)
(* payload: it returns null for a payload that cannot be decoded, and the  *)
(* record it returns otherwise has the decoded payload, not the input,     *)
(* under raw.                                                              *)
(***************************************************************************)
C19_RawIsDecodedPayload ==
    (pc = "projected" /\ query = "bukopin" /\ Truthy(Get(source, "payload")))
        => outcome = Called(RawRecordOf(source, DecodeStep(Get(source, "payload"))))

\* the record is fit for the sink: new Date of its @timestamp is a valid
\* instant and, for batchInsertUserRecords, its uid is a non-empty string
FitForSink(doc) ==
    /\ NewDate(Get(doc, "@timestamp")).time # <<"Invalid Date">>
    /\ Get(doc, "@timestamp") # NullV
    /\ query = "retrieveUserInfo" => Get(doc, "uid").t = "string" /\ Get(doc, "uid").s # <<>>

(***************************************************************************)
(* C20.  Every record of the buffer that run is about to give to a batch   *)
(* insert has a timestamp that is a valid, non-null instant and, under     *)
(* retrieveUserInfo, a non-empty uid: a document whose @timestamp is       *)
(* missing or is not a date, or whose uid is missing, is never submitted.  *)
(***************************************************************************)
C20_SubmittedRecordsValid ==
    pc \in {"submit", "flush"}
        => \A i \in 1..Len(processedBatch) : FitForSink(Processed(processedBatch[i]))

\* the process was started with a required setting missing, or with a query
\* type that is not a key of config.queries
ConfigurationFailure ==
    \/ ~settings.env
    \/ settings.startDate = NotGiven \/ settings.endDate = NotGiven
    \/ query \notin ConfigQueries

\* no search or scroll request and no createMany has been issued
NoBackendCall ==
    /\ fetches = 0
    /\ FetchCalls = {}
    /\ Calls("createMany") = {}
    /\ store = {}

(***************************************************************************)
(* C21.  When the process is started with a required setting missing or    *)
(* with a query type that is not a key of config.queries, it never gets    *)
(* past its start-up steps: no search request and no sink write is issued, *)
(* and the exit status, once set, is not zero.                             *)
(***************************************************************************)
C21_ConfigurationFailureIsFatal ==
    ConfigurationFailure
        => /\ NoBackendCall
           /\ pc \in {"load", "parseArgs", "exited"}
           /\ pc = "exited" => exitStatus = <<1>>

\* an unknown query type, everything else given, has ended the process
C21_Witness ==
    /\ query = "other"
    /\ settings = CompleteSettings
    /\ pc = "exited"
    /\ exitStatus = <<1>>
    /\ NoBackendCall

\* the process was ended by a termination signal
Cancelled == pc = "exited" /\ exitStatus = <<130>>

\* a search or scroll request has returned a cursor handle
CursorOpened == \E i \in FetchCalls : log[i].ok /\ log[i].next # NoHandle

(***************************************************************************)
(* C22.  When the run is cancelled from outside after the cursor was       *)
(* opened, a release of the cursor and a disconnection of the sink have    *)
(* both been attempted by the time the process has terminated.             *)
(***************************************************************************)
C22_CleanupOnCancellation ==
    (Cancelled /\ CursorOpened)
        => Calls("clearScroll") # {} /\ Calls("disconnect") # {}

(***************************************************************************)
(* C23.  Within one run no fetched document's record is given to the sink  *)
(* in more than one createMany call; in particular the records of a call   *)
(* that raised are in no later call.                                       *)
(***************************************************************************)
C23_NoResubmission ==
    /\ \A id \in 1..MaxDocs : TimesSubmitted(id) <= 1
    /\ \A i \in Raised("createMany") : \A j \in Calls("createMany") :
          j > i => \A k \in 1..Len(log[i].ids), m \in 1..Len(log[j].ids) :
                      log[i].ids[k] # log[j].ids[m]

\* a createMany call raised, a later createMany call was made, and the
\* process has exited
C23_Witness ==
    /\ Exited
    /\ \E i \in Raised("createMany") : \E j \in Calls("createMany") :
          j > i /\ log[i].ids # <<>> /\ log[j].ids # <<>>

\* the scenario of one matching document: the search returned one hit and a
\* cursor handle, the hit projects to a record, the scroll that followed
\* returned no hit, and neither the sink nor the disconnection raised
OneDocumentScenario ==
    /\ Len(log) >= 2
    /\ log[1].op = "search" /\ log[1].ok
    /\ Len(log[1].page) = 1 /\ log[1].next # NoHandle
    /\ ~projection[log[1].page[1]].threw
    /\ Truthy(projection[log[1].page[1]].v)
    /\ log[2].op = "scroll" /\ log[2].ok /\ log[2].page = <<>>
    /\ Raised("createMany") = {}
    /\ Raised("disconnect") = {}

(***************************************************************************)
(* C24.  In the scenario of one matching document and an empty sink, once  *)
(* the process has exited: one record was projected, one createMany call   *)
(* of that one record was made, the sink holds one row, the summary counts *)
(* are fetched 1, projection-skipped 0, inserted 1, load-skipped 0, and    *)
(* the exit status is zero.                                                *)
(***************************************************************************)
C24_OneDocumentRun ==
    (Exited /\ OneDocumentScenario)
        => /\ projected = {1}
           /\ \E i \in Calls("createMany") :
                 Calls("createMany") = {i} /\ log[i].ids = <<1>>
           /\ Cardinality(store) = 1
           /\ summary = <<[fetched |-> 1, skippedPayload |-> 0,
                           inserted |-> 1, dbSkipped |-> 0]>>
           /\ exitStatus = <<0>>

\* the scenario has run to the exit of the process
C24_Witness == Exited /\ OneDocumentScenario /\ exitStatus = <<0>>

\* 00:00 at +08:00 of startDate and of endDate, in hours from 2025-01-15T00:00Z
WindowStart == UtcMidnight(settings.startDate) - 8

WindowEnd == UtcMidnight(settings.endDate) - 8

\* the document has a timestamp, and it is in [WindowStart, WindowEnd)
InWindow(d) ==
    indexed[d] # {} /\ \A t \in indexed[d] : WindowStart <= t /\ t < WindowEnd

(***************************************************************************)
(* C25.  The search is scoped by the half-open window from 00:00 +08:00 of *)
(* startDate to 00:00 +08:00 of endDate: its filter accepts the start      *)
(* instant and rejects the end instant, every document of every page       *)
(* fetched is in the window, and so is every document given to the         *)
(* projector.                                                              *)
(***************************************************************************)
C25_HalfOpenWindow ==
    /\ Accepts(SearchRequest(settings, query).range, {WindowStart})
    /\ ~Accepts(SearchRequest(settings, query).range, {WindowEnd})
    /\ \A i \in FetchCalls : \A k \in 1..Len(log[i].page) : InWindow(log[i].page[k])
    /\ pc = "process" => \A k \in 1..Len(hits) : InWindow(hits[k])

\* the document at the start instant is in the page given to the projector
C25_Witness ==
    /\ pc = "process"
    /\ \E k \in 1..Len(hits) : indexed[hits[k]] = {WindowStart}

\* the instant of the @timestamp of a fetched document
StampOf(d) == CHOOSE t \in indexed[d] : TRUE

\* the documents of a page run from newest to oldest
NewestFirst(page) ==
    \A k, m \in 1..Len(page) : k < m => StampOf(page[k]) >= StampOf(page[m])

(***************************************************************************)
(* C26.  The documents the search of fetchLogs returns are delivered       *)
(* newest first, as a sort clause on @timestamp in descending order makes  *)
(* them: within each fetched page, and from each page to every later page. *)
(***************************************************************************)
C26_SortedNewestFirst ==
    /\ \A i \in FetchCalls : NewestFirst(log[i].page)
    /\ \A i, j \in FetchCalls : i < j => NewestFirst(log[i].page \o log[j].page)

\* the call decoded the payload to an object or array and returned
ProjectedStructured == DecodeStepRan /\ parsedPayload.ok /\ ~outcome.threw

\* the employment value of the decoded payload
EmploymentOf(decoded) == Get(decoded, "employment")

\* the employment section of what the call returned: undefined when it
\* returned null or a record without the section
ReturnedEmployment == Get(Get(outcome.v, "payload"), "employment")

\* the employment id, eid and salary of one element of an employment list
EmploymentFieldsOf(element) ==
    <<Get(element, "id"), Get(element, "eid"),
      Get(Get(element, "salaryDetails"), "salary")>>

(***************************************************************************)
(* C27.  Under the structured profile, when the employment value of the    *)
(* decoded payload is a non-empty list, the employment id, eid and salary  *)
(* of the returned record are those of its first element, whatever the     *)
(* later elements hold; when it is an empty list or not a list, the        *)
(* returned record has no employment section.                              *)
(***************************************************************************)
C27_FirstEmploymentOnly ==
    ProjectedStructured
        => IF EmploymentOf(parsedPayload.v).t = "array"
              /\ EmploymentOf(parsedPayload.v).a # <<>>
           THEN /\ ReturnedEmployment.t = "object"
                /\ EmploymentFieldsOf(ReturnedEmployment)
                      = EmploymentFieldsOf(EmploymentOf(parsedPayload.v).a[1])
           ELSE ReturnedEmployment = Undef

\* a list whose second element has an id and a salary that the first lacks
\* was projected to a record without them
C27_Witness ==
    /\ ProjectedStructured
    /\ EmploymentOf(parsedPayload.v).t = "array"
    /\ Len(EmploymentOf(parsedPayload.v).a) = 2
    /\ EmploymentFieldsOf(EmploymentOf(parsedPayload.v).a[2])
          = <<Str(<<"e9">>), Undef, Num(12)>>
    /\ EmploymentFieldsOf(ReturnedEmployment) = <<Undef, Str(<<"e2">>), Undef>>

\* the entry of log is a fetch whose page fetchLogs yielded to run
IsYield(e) ==
    e.op \in {"search", "scroll"} /\ e.ok /\ LoopContinues(e.page, e.next)

\* the pages of the entries of a sequence of yields
PagesOf(yields) == [k \in 1..Len(yields) |-> yields[k].page]

\* the documents given to run so far, in the order of the fetches and,
\* within a page, in the order of the page
YieldedDocs(history) == Flatten(PagesOf(SelectSeq(history, IsYield)))

\* the buffer holds records of yielded documents, each standing for the
\* document at its position, in the order the documents were yielded
InYieldOrder(batch, history) ==
    /\ \A k \in 1..Len(batch) :
          /\ batch[k].id \in 1..Len(YieldedDocs(history))
          /\ batch[k].doc = YieldedDocs(history)[batch[k].id]
    /\ \A k, m \in 1..Len(batch) : k < m => batch[k].id < batch[m].id

\* the buffer is changed by the processing of a page, which appends to it,
\* or by a batch insert, which empties it
AppendedByProcessPage ==
    processedBatch' # processedBatch
        => \/ /\ pc = "process"
              /\ Len(processedBatch') > Len(processedBatch)
              /\ SubSeq(processedBatch', 1, Len(processedBatch)) = processedBatch
           \/ /\ pc \in {"submit", "flush"}
              /\ processedBatch' = <<>>

(***************************************************************************)
(* C28.  The projected records enter the load buffer in the document order *)
(* of their page and the pages in the order they were fetched, and the     *)
(* buffer is appended to only by the one step of run that handles a page,  *)
(* after the projections of the page.                                      *)
(***************************************************************************)
C28_BufferInPageOrder ==
    [][InYieldOrder(processedBatch', log') /\ AppendedByProcessPage]_vars

\* the buffer holds the first document of the first page and, after a
\* skipped document, the second document of the second page
C28_Witness ==
    /\ Len(processedBatch) = 2
    /\ processedBatch[1].id = 1
    /\ processedBatch[2].id = 3
    /\ Cardinality({i \in 1..Len(log) : IsYield(log[i])}) = 2
    /\ InYieldOrder(processedBatch, log)

\* every document counted as fetched is counted as skipped at projection,
\* inserted or skipped by the sink, or has its record in the buffer
Conserved ==
    totalProcessedCount =
        totalSkippedPayloadCount + totalInsertedCount + totalDbSkippedCount
            + Len(processedBatch)

(***************************************************************************)
(* C29.  After each page has been processed, fetched = projection-skipped  *)
(* + inserted + load-skipped + the number of records in the buffer; and a  *)
(* run that completes without a fatal error, printing its summary, ends    *)
(* with the buffer empty and fetched = projection-skipped + inserted +     *)
(* load-skipped in the summary.                                            *)
(***************************************************************************)
C29_CountConservation ==
    /\ (pc # "process" /\ ~ProjectionThrew) => Conserved
    /\ summary # <<>>
          => /\ processedBatch = <<>>
             /\ summary[1].fetched
                   = summary[1].skippedPayload + summary[1].inserted + summary[1].dbSkipped

\* a summary in which documents were skipped at projection, inserted and
\* skipped by the sink
C29_Witness ==
    /\ summary # <<>>
    /\ Counts.skippedPayload > 0 /\ Counts.inserted > 0 /\ Counts.dbSkipped > 0
    /\ Conserved

(***************************************************************************)
(* C30.  Whenever run asks fetchLogs for the next page the buffer holds    *)
(* fewer than batchSize records, so the buffer never holds more than       *)
(* batchSize - 1 + pageSize records, and the page held is of at most       *)
(* pageSize documents, however many documents match.                       *)
(***************************************************************************)
C30_BufferBounded ==
    /\ pc = "scroll" => Len(processedBatch) < batchSize
    /\ Len(processedBatch) <= batchSize - 1 + pageSize
    /\ Len(hits) <= pageSize

\* the buffer at its bound: a full page was appended to batchSize - 1 records
C30_Witness ==
    /\ pc = "submit"
    /\ Len(hits) = pageSize
    /\ Len(processedBatch) = batchSize - 1 + pageSize

\* the last search or scroll request before position i that returned
LastFetched(i) ==
    CHOOSE j \in FetchCalls :
        /\ j < i /\ log[j].ok
        /\ \A k \in FetchCalls : (k < i /\ log[k].ok) => k <= j

\* the step issues a scroll request
ScrollIssuedInStep ==
    /\ Len(log') = Len(log) + 1
    /\ log'[Len(log')].op = "scroll"

\* the step issues a clearScroll call
ReleaseIssuedInStep ==
    /\ Len(log') = Len(log) + 1
    /\ log'[Len(log')].op = "clearScroll"

\* the step adds one call to log, or none, and leaves the calls made alone
LogGrows ==
    \/ log' = log
    \/ Len(log') = Len(log) + 1 /\ SubSeq(log', 1, Len(log)) = log

\* a scroll request issued in the step is given the handle the request
\* before it returned, and a clearScroll call in the step the handle of the
\* last request that returned
HandlesChained ==
    /\ LogGrows
    /\ ScrollIssuedInStep =>
          /\ FetchCalls # {}
          /\ log[FetchBefore(Len(log'))].ok
          /\ log[FetchBefore(Len(log'))].next # NoHandle
          /\ log'[Len(log')].handle = log[FetchBefore(Len(log'))].next
    /\ ReleaseIssuedInStep =>
          /\ \E j \in FetchCalls : log[j].ok
          /\ log'[Len(log')].handle = log[LastFetched(Len(log'))].next

\* run is through with every page it was given: the documents are counted,
\* their records are in the buffer or were handed to the sink, and no
\* batch insert is due
PagesProcessed ==
    /\ totalProcessedCount = SumPages(FetchCalls, 0)
    /\ hits = log[CHOOSE j \in FetchCalls : \A k \in FetchCalls : k <= j].page
    /\ totalProcessedCount =
          totalSkippedPayloadCount + totalInsertedCount + totalDbSkippedCount
              + Len(processedBatch)
    /\ ~ShouldSubmit(processedBatch)

(***************************************************************************)
(* C31.  Every scroll request is given the cursor handle returned by the   *)
(* request just before it, which returned; a scroll request is issued only *)
(* when run has finished processing the page yielded before it; and the    *)
(* clearScroll call is given the handle returned by the last request that  *)
(* returned.                                                               *)
(***************************************************************************)
C31_HandleChaining ==
    [][HandlesChained /\ (ScrollIssuedInStep => PagesProcessed)]_vars

\* a run whose search and two scroll requests returned three different
\* handles, released with the third
C31_Witness ==
    /\ Cardinality(Calls("scroll")) = 2
    /\ \E i \in Calls("clearScroll") :
          /\ log[i].handle = Handle(3)
          /\ log[LastFetched(i)].op = "scroll"
          /\ log[LastFetched(i)].next = Handle(3)
          /\ log[FetchBefore(LastFetched(i))].next = Handle(2)

\* the process has exited after a clearScroll call and a disconnect call
ExitedAfterCleanup ==
    /\ Exited
    /\ Calls("clearScroll") # {}
    /\ Calls("disconnect") # {}

\* the last search or scroll request went unanswered by a page: it raised,
\* or returned no hit or no handle
IteratorDone ==
    \E i \in FetchCalls :
        /\ \A j \in FetchCalls : j <= i
        /\ ~HitsAndHandle(i)

\* the process has exited after a disconnect call
ExitedAfterDisconnect == Exited /\ Calls("disconnect") # {}

\* every run exits, after a disconnect call
RunExits == <>ExitedAfterDisconnect

(***************************************************************************)
(* C32.  Every run in which each call returns or raises and the backend    *)
(* runs out of hits eventually exits, having attempted the release of the  *)
(* cursor and the disconnect of the sink; and the loop of run has ended    *)
(* exactly when fetchLogs has no further page to yield.                    *)
(***************************************************************************)
C32_RunTerminates ==
    /\ <>ExitedAfterCleanup
    /\ [](TornDown => IteratorDone)
    /\ [](IteratorDone => pc \notin {"process", "submit", "scroll"})

\* fetchLogs was left holding a cursor handle
HandleHeldAtTeardown == TornDown /\ scrollId # NoHandle

InLoop(i) == IF i < Len(log) THEN log[i + 1].op = "scroll" ELSE pc = "scroll"

\* what a batch insert returns when it returns at once: no record inserted
\* or skipped, the table as it was, the sink not called
ReturnedAtOnce == InsertResult(FALSE, 0, 0, store, FALSE)

(***************************************************************************)
(* C34.  createMany is never called with an empty list of records: a call  *)
(* made inside the loop is given at least batchSize records, the call of   *)
(* the final flush at least one, and batchInsertUserRecords and            *)
(* batchInsertBukopinRecords given an empty batch return inserted 0 and    *)
(* skipped 0 without calling the sink.                                     *)
(***************************************************************************)
C34_NoEmptyInsert ==
    /\ \A i \in Calls("createMany") :
          /\ Len(log[i].ids) > 0
          /\ InLoop(i) => Len(log[i].ids) >= batchSize
    /\ pc = "submit" => Len(processedBatch) >= batchSize
    /\ \A fails \in BOOLEAN :
          /\ batchInsertUserRecords(<<>>, store, fails) = ReturnedAtOnce
          /\ batchInsertBukopinRecords(<<>>, store, fails) = ReturnedAtOnce

\* a run that gave the sink a full buffer inside the loop and one record in
\* the final flush
C34_Witness ==
    /\ Exited
    /\ \E i, j \in Calls("createMany") :
          /\ i < j
          /\ InLoop(i) /\ Len(log[i].ids) = batchSize
          /\ ~InLoop(j) /\ Len(log[j].ids) = 1
    /\ store # {}

\* a createMany call of the monolithic run that raises adds the size of the
\* batch to the failed count and sets exitCode, and inside the loop the
\* buffer is reset and the next scroll request follows
SinkFailureCounted ==
    SinkRaisesInStep =>
        /\ totalFailedToInsertCount' = totalFailedToInsertCount + Len(batchToInsert)
        /\ totalInsertedCount' = totalInsertedCount
        /\ exitCode' = 1
        /\ pc = "submit" => batchToInsert' = <<>> /\ pc' = "scroll"

\* a run in which a createMany call raised does not exit with status 0
DegradedExit == (Exited /\ SinkRaised) => exitStatus = <<1>>

\* the process exits after a clearScroll call, a disconnect call and the
\* summary
CleanupOnEveryPath ==
    Exited =>
        /\ Calls("clearScroll") # {}
        /\ Calls("disconnect") # {}
        /\ summary # <<>>

\* the process exits after a disconnect call, after a clearScroll call when
\* it held a handle, and after the summary unless $disconnect raised
CleanupAsCoded ==
    Exited =>
        /\ Calls("disconnect") # {}
        /\ scrollId # NoHandle => Calls("clearScroll") # {}
        /\ Raised("disconnect") = {} => summary # <<>>

\* the handling of a createMany call that raises, and the cleanup as coded
SinkFailureHandled ==
    [][SinkFailureCounted /\ DegradedExit' /\ CleanupAsCoded']_vars

\* a run went on after a createMany call that raised: a scroll request and
\* a createMany call that returned follow it, and the run exited with 1
ContinuedAfterSinkFailure ==
    /\ Exited /\ exitStatus = <<1>> /\ summary # <<>>
    /\ \E i \in Raised("createMany"), j \in Calls("scroll"), k \in Calls("createMany") :
          i < j /\ j < k /\ log[k].ok
    /\ summary[1].failed >= batchSize

(***************************************************************************)
(* C35.  In the monolithic run a createMany call that raises adds the size *)
(* of its batch to the failed count and makes the exit status non-zero,    *)
(* and the run goes on: the buffer is reset and the next scroll request is *)
(* issued; and on every path to its exit the run calls clearScroll and     *)
(* disconnects the sink and prints the summary.                            *)
(***************************************************************************)
C35_SinkFailureDegrades ==
    [][SinkFailureCounted /\ DegradedExit' /\ CleanupOnEveryPath']_vars

(***************************************************************************)
(* The batches of loadCsvData                                              *)
(***************************************************************************)
\* the createMany calls of loadCsvData, as positions of the log
LoaderCalls == {i \in 1..Len(log) : log[i].op = "createMany"}

\* the records loadCsvData has accepted: delivered and not skipped
AcceptedCount == processedRecordCount - skippedRecordCount

\* the records submitted in the createMany calls of the positions in calls
RECURSIVE SubmittedIn(_)
SubmittedIn(calls) ==
    IF calls = {} THEN 0
    ELSE LET i == CHOOSE c \in calls : TRUE
         IN  Len(log[i].ids) + SubmittedIn(calls \ {i})

\* n / d rounded up
CeilDiv(n, d) == (n + d - 1) \div d

\* the loop is over and nothing has raised
LoaderCompleted == pc \in {"disconnect", "unhandled", "exited"} /\ pending = "none"

\* the buffer never exceeds batchSize and is submitted when it reaches it
SubmittedWhenFull ==
    /\ Len(loaderBatch) <= batchSize
    /\ pc = "read" => Len(loaderBatch) < batchSize
    /\ pc = "submit" => Len(loaderBatch) = batchSize

\* the sizes of the submissions
SubmissionSizes ==
    \A i \in LoaderCalls :
        /\ Len(log[i].ids) \in 1..batchSize
        /\ (\E j \in LoaderCalls : j > i) => Len(log[i].ids) = batchSize

\* the number of the submissions
SubmissionCount ==
    /\ (pc = "read" /\ pending = "none") =>
          /\ Cardinality(LoaderCalls) = AcceptedCount \div batchSize
          /\ Len(loaderBatch) = AcceptedCount % batchSize
    /\ LoaderCompleted =>
          /\ Cardinality(LoaderCalls) = CeilDiv(AcceptedCount, batchSize)
          /\ SubmittedIn(LoaderCalls) = AcceptedCount
    /\ Cardinality(LoaderCalls) <= CeilDiv(AcceptedCount, batchSize)

\* the process ends only after a $disconnect call, and every run ends
DisconnectedOnExit ==
    /\ pc \in {"unhandled", "exited"} => \E i \in 1..Len(log) : log[i].op = "disconnect"
    /\ \A i, j \in 1..Len(log) :
          (log[i].op = "disconnect" /\ i < j) => log[j].op = "disconnect"
    /\ pc # "exited" => ENABLED LoaderNext
    /\ pc = "exited" => exitStatus \in {<<0>>, <<1>>}

\* one step appends at most one record to the buffer, the record delivered
OneAtATime ==
    \/ loaderBatch' = loaderBatch
    \/ loaderBatch' = <<>>
    \/ /\ processedRecordCount' = processedRecordCount + 1
       /\ Len(loaderBatch') = Len(loaderBatch) + 1
       /\ loaderBatch'[Len(loaderBatch')].id = processedRecordCount'

EmptyLoginTime(row) == Trimmed(row.login_time) = <<>>

\* the login_time of the row is text that is no date
UnparseableLoginTime(row) ==
    /\ ~EmptyLoginTime(row)
    /\ NewDate(Str(Trimmed(row.login_time))).time = <<"Invalid Date">>

\* the rows delivered so far, by number, whose login_time is empty
DeliveredEmpty == {i \in 1..processedRecordCount : EmptyLoginTime(records[i])}

\* the rows delivered so far, by number, whose login_time is no date
DeliveredUnparseable ==
    {i \in 1..processedRecordCount : UnparseableLoginTime(records[i])}

\* the records of the buffer and of the createMany calls
BatchedRecords ==
    {loaderBatch[i] : i \in 1..Len(loaderBatch)}
        \cup UNION {{log[i].ids[j] : j \in 1..Len(log[i].ids)} : i \in LoaderCalls}

\* what loadCsvData does: it skips and counts the rows whose login_time is
\* text that is no date, and batches every other row, the rows with an
\* empty login_time with a null login_time; a createMany call with such a
\* record raises; and the counts balance at the end of a run without error
SkipsUnparseableOnly ==
    /\ skippedRecordCount = Cardinality(DeliveredUnparseable)
    /\ \A e \in BatchedRecords :
          /\ e.id \notin DeliveredUnparseable
          /\ e.row.login_time.t = (IF e.id \in DeliveredEmpty THEN "null" ELSE "date")
    /\ \A i \in LoaderCalls :
          (\E j \in 1..Len(log[i].ids) : log[i].ids[j].id \in DeliveredEmpty) => ~log[i].ok
    /\ LoaderCompleted =>
          processedRecordCount = skippedRecordCount + SubmittedIn(LoaderCalls)

\* a record with a null login_time has been submitted to the sink
NullLoginTimeSubmitted ==
    \E i \in LoaderCalls : \E j \in 1..Len(log[i].ids) :
        log[i].ids[j].row.login_time.t = "null"

(***************************************************************************)
(* C37. in loadCsvData every record placed in a batch has a valid          *)
(* login_time that is not null: a row whose login_time is empty or is no   *)
(* date is skipped, counted in skippedRecordCount and in no createMany     *)
(* call, and at the end of a run without an error of the sink the          *)
(* processed count is the skipped count plus the records submitted.        *)
(***************************************************************************)
C37_LoginTimeValid ==
    /\ \A e \in BatchedRecords : e.row.login_time.t = "date"
    /\ skippedRecordCount = Cardinality(DeliveredEmpty \cup DeliveredUnparseable)
    /\ \A e \in BatchedRecords : e.id \notin DeliveredEmpty \cup DeliveredUnparseable
    /\ LoaderCompleted =>
          processedRecordCount = skippedRecordCount + SubmittedIn(LoaderCalls)

====
